---- MODULE Spec2Model ----
(***************************************************************************)
(* Model of the content generation cron (src/content_generation_cron.py):  *)
(* the batch loop of process_calendar_entries, the per-entry pipeline of   *)
(* process_single_entry and the stages it calls.                           *)
(*                                                                         *)
(* The database tables calendar_entries and created_content are state.     *)
(* Every external call (Supabase select/insert/update, image generation,   *)
(* download, storage upload, caption request) has an outcome drawn from a  *)
(* small set; a stage is modelled as the set of the executions it can      *)
(* have, each execution being its return value together with the sequence *)
(* of external calls it made.  A write that raises is not applied.         *)
(***************************************************************************)
EXTENDS Naturals, Integers, Sequences, FiniteSets, TLC

VARIABLES
    calendar_entries,   \* table calendar_entries: entry id -> row
    created_content,    \* table created_content: entry id -> rows held for it
    pc,                 \* per process: "idle", "running" or "done"
    openai_client,      \* per process: self.openai_client is configured
    batch,              \* per process: response.data of the batch query
    idx,                \* per process: number of batch entries iterated
    query,              \* per process: outcome of the batch query
    errors,             \* per process: "Error processing entry" lines logged
    processed,          \* per process: ids logged as "Successfully processed"
    last,               \* per process: execution of the entry iterated last
    running,            \* per process: entries begun and not finished, with
                        \* the calls each has made so far
    loader_response,    \* the outcome of a select on profiles
    loader_contexts,    \* the contexts got from it: by _load_user_profile,
                        \* then by merging the defaults once more
    classifier_args,    \* arguments of _analyze_content_for_visual_style
    classifier_results, \* what the calls with these arguments gave
    synth_args,         \* arguments of generate_content
    synth_results,      \* what the call with these arguments gave
    composer_args,      \* catalog, entry and contexts of a prompt composition
    composer_results,   \* the prompt composed from them
    caption_args,       \* client, topic, record and API answer of a caption
    caption_results,    \* what generate_caption_for_image gave
    path_args,          \* topic, entry id and random id of an upload
    path_results        \* the object path built from them

pipeline_vars ==
    <<calendar_entries, created_content, pc, openai_client, batch, idx,
      query, errors, processed, last, running>>

loader_vars == <<loader_response, loader_contexts>>

classifier_vars == <<classifier_args, classifier_results>>

synth_vars == <<synth_args, synth_results>>

composer_vars == <<composer_args, composer_results>>

caption_vars == <<caption_args, caption_results>>

path_vars == <<path_args, path_results>>

stage_vars == <<synth_vars, composer_vars, caption_vars, path_vars>>

vars == <<pipeline_vars, loader_vars, classifier_vars, stage_vars>>

----------------------------------------------------------------------------
(* Bounds *)

NumEntries == 2
MaxRows == 2

Entries == 1..NumEntries
Procs == {"cron_a", "cron_b"}

----------------------------------------------------------------------------
(* Python values *)

NULL == "NULL"
None == <<>>
Some(x) == <<x>>

\* dict.get(key, default): the default is used only when the key is absent;
\* a key stored with the value None yields None.
Get(d, k, default) == IF k \in DOMAIN d THEN d[k] ELSE default

Range(s) == {s[i] : i \in 1..Len(s)}

\* isinstance(v, list): a Python list is modelled as a tuple, a str as a
\* string.
IsList(v) == SubSeq(ToString(v), 1, 2) = "<<"

\* v is None
IsNone(v) == ~IsList(v) /\ v = NULL

RECURSIVE Flatten(_)
Flatten(ss) == IF ss = <<>> THEN <<>> ELSE Head(ss) \o Flatten(Tail(ss))

----------------------------------------------------------------------------
(* Profile Loader: _load_user_profile *)

\* The columns named in the select on table profiles.
basic_fields ==
    {"business_name", "business_description", "brand_tone", "brand_voice",
     "industry", "target_audience", "unique_value_proposition",
     "social_media_platforms", "primary_goals", "content_themes",
     "name", "avatar_url", "onboarding_completed",
     "primary_color", "secondary_color", "brand_colors"}

\* A profile row with every column set.
CompleteProfile ==
    [k \in basic_fields |->
        CASE k = "business_name" -> "Acme"
          [] k = "brand_tone" -> "friendly"
          [] k = "brand_voice" -> "warm"
          [] k = "industry" -> "retail"
          [] k = "target_audience" -> "shoppers"
          [] k = "unique_value_proposition" -> "fair prices"
          [] k = "content_themes" -> "sales"
          [] k = "primary_color" -> "#112233"
          [] k = "secondary_color" -> "#445566"
          [] k = "brand_colors" -> "#112233,#445566"
          [] OTHER -> "set"]

\* A row of a user who has not filled in the profile: every column is null.
BlankProfile == [k \in basic_fields |-> NULL]

\* The rows the profiles table may hold for a user.
ProfileRows == {CompleteProfile, BlankProfile}

\* The outcomes of the select on profiles: it raises, or returns 0 or 1 row.
ProfileResponses ==
    {[raised |-> TRUE, data |-> <<>>], [raised |-> FALSE, data |-> <<>>]}
    \cup {[raised |-> FALSE, data |-> <<r>>] : r \in ProfileRows}

\* The dict literal `defaults` built from the row (lines 99-110).
profile_defaults(profile_data) ==
    [k \in {"brand_tone", "business_name", "industry", "target_audience",
            "unique_value", "brand_voice", "content_themes", "primary_color",
            "secondary_color", "brand_colors"} |->
        CASE k = "brand_tone" -> Get(profile_data, "brand_tone", "professional")
          [] k = "business_name" -> Get(profile_data, "business_name", "Our Business")
          [] k = "industry" -> Get(profile_data, "industry", "general")
          [] k = "target_audience" -> Get(profile_data, "target_audience", "our audience")
          [] k = "unique_value" -> Get(profile_data, "unique_value_proposition", "providing value")
          [] k = "brand_voice" -> Get(profile_data, "brand_voice", "professional and helpful")
          [] k = "content_themes" -> Get(profile_data, "content_themes", "business,growth")
          [] k = "primary_color" -> Get(profile_data, "primary_color", "#007bff")
          [] k = "secondary_color" -> Get(profile_data, "secondary_color", "#6c757d")
          [] k = "brand_colors" -> Get(profile_data, "brand_colors", "#007bff,#6c757d")]

\* profile_data.update({k: v ... if k not in profile_data or profile_data[k] is None})
merge_defaults(profile_data) ==
    LET defaults == profile_defaults(profile_data)
        taken == {k \in DOMAIN defaults :
                     k \notin DOMAIN profile_data \/ IsNone(profile_data[k])}
    IN  [k \in DOMAIN profile_data \cup taken |->
            IF k \in taken THEN defaults[k] ELSE profile_data[k]]

\* The dict returned when the select raises (lines 122-133).
minimal_defaults ==
    [k \in {"business_name", "brand_tone", "brand_voice", "industry",
            "target_audience", "unique_value_proposition", "content_themes",
            "primary_color", "secondary_color", "brand_colors"} |->
        CASE k = "business_name" -> "Our Business"
          [] k = "brand_tone" -> "professional"
          [] k = "brand_voice" -> "helpful and engaging"
          [] k = "industry" -> "general"
          [] k = "target_audience" -> "our audience"
          [] k = "unique_value_proposition" -> "providing value"
          [] k = "content_themes" -> "business"
          [] k = "primary_color" -> "#007bff"
          [] k = "secondary_color" -> "#6c757d"
          [] k = "brand_colors" -> "#007bff,#6c757d"]

\* Mutant: a select that raised is taken for a missing profile.
load_user_profile_empty_on_error(response) ==
    IF response.raised THEN <<>>
    ELSE IF Len(response.data) > 0 THEN merge_defaults(response.data[1])
    ELSE <<>>

\* _load_user_profile, given the outcome of its select: the merged row, the
\* empty mapping (no row), or the minimal defaults (the select raised).
load_user_profile(response) ==
    IF response.raised THEN minimal_defaults
    ELSE IF Len(response.data) > 0 THEN merge_defaults(response.data[1])
    ELSE <<>>

\* How the call is named in an execution's list of external calls.
ProfileResult(response) ==
    IF response.raised THEN "raise"
    ELSE IF Len(response.data) > 0 THEN "row" ELSE "none"

----------------------------------------------------------------------------
(* Python strings *)

\* str(v) inside an f-string.
Str(v) == IF v = NULL THEN "None" ELSE v

RECURSIVE Replace(_, _, _)
\* s.replace(old, new) for a one-character old.
Replace(s, old, new) ==
    IF s = "" THEN ""
    ELSE (IF Head(s) = old THEN new ELSE Head(s)) \o Replace(Tail(s), old, new)

LowerCase == "abcdefghijklmnopqrstuvwxyz"
UpperCase == "ABCDEFGHIJKLMNOPQRSTUVWXYZ"

IndexIn(c, alphabet) ==
    IF \E i \in 1..Len(alphabet) : SubSeq(alphabet, i, i) = c
    THEN CHOOSE i \in 1..Len(alphabet) : SubSeq(alphabet, i, i) = c
    ELSE 0

ToLowerChar(c) ==
    LET i == IndexIn(c, UpperCase) IN IF i = 0 THEN c ELSE SubSeq(LowerCase, i, i)

ToUpperChar(c) ==
    LET i == IndexIn(c, LowerCase) IN IF i = 0 THEN c ELSE SubSeq(UpperCase, i, i)

RECURSIVE Lower(_)
\* s.lower()
Lower(s) == IF s = "" THEN "" ELSE ToLowerChar(Head(s)) \o Lower(Tail(s))

\* s.capitalize(): first character upper-cased, the rest lower-cased.
Capitalize(s) == IF s = "" THEN "" ELSE ToUpperChar(Head(s)) \o Lower(Tail(s))

RECURSIVE SplitFrom(_, _, _)
SplitFrom(s, sep, cur) ==
    IF s = "" THEN <<cur>>
    ELSE IF Head(s) = sep THEN <<cur>> \o SplitFrom(Tail(s), sep, "")
    ELSE SplitFrom(Tail(s), sep, cur \o Head(s))

\* s.split(sep) for a one-character sep.
Split(s, sep) == SplitFrom(s, sep, "")

StartsWith(s, prefix) ==
    Len(s) >= Len(prefix) /\ SubSeq(s, 1, Len(prefix)) = prefix

RECURSIVE ReplaceAll(_, _, _)
\* s.replace(old, new) for a non-empty old: every occurrence, left to right.
ReplaceAll(s, old, new) ==
    LET hits == {i \in 1..(Len(s) - Len(old) + 1) :
                    SubSeq(s, i, i + Len(old) - 1) = old}
    IN  IF hits = {} THEN s
        ELSE LET i == CHOOSE h \in hits : \A j \in hits : h <= j
             IN  SubSeq(s, 1, i - 1) \o new
                 \o ReplaceAll(SubSeq(s, i + Len(old), Len(s)), old, new)

RECURSIVE LStrip(_)
LStrip(s) == IF s # "" /\ Head(s) = " " THEN LStrip(Tail(s)) ELSE s

RECURSIVE RStrip(_)
RStrip(s) ==
    IF s # "" /\ SubSeq(s, Len(s), Len(s)) = " "
    THEN RStrip(SubSeq(s, 1, Len(s) - 1)) ELSE s

\* s.strip() (blanks only)
Strip(s) == RStrip(LStrip(s))

RECURSIVE Join(_, _)
\* sep.join(parts)
Join(parts, sep) ==
    IF parts = <<>> THEN ""
    ELSE IF Len(parts) = 1 THEN parts[1]
    ELSE parts[1] \o sep \o Join(Tail(parts), sep)

\* dict.update(u)
Update(d, u) ==
    [k \in DOMAIN d \cup DOMAIN u |-> IF k \in DOMAIN u THEN u[k] ELSE d[k]]

----------------------------------------------------------------------------
(* Content Synthesizer: generate_content *)

\* The per-content-type fields merged into content_data (lines 459-556).
content_type_fields(content_type, topic, business_name, industry, target_audience, brand_voice, unique_value) ==
    CASE content_type = "static_post" ->
           [title |-> Str(business_name) \o ": " \o Str(topic),
            content |-> "Discover how " \o Str(business_name) \o " helps "
                        \o Str(target_audience) \o " with " \o Str(topic)
                        \o ". Our " \o Str(unique_value)
                        \o " makes us the perfect partner for your "
                        \o Str(industry) \o " needs. #BusinessExcellence",
            image_type |-> "single_image",
            aspect_ratio |-> "1:1",
            text_overlay |-> TRUE,
            generate_image |-> TRUE]
      [] content_type = "image_post" ->
           [title |-> Str(business_name) \o ": " \o Str(topic),
            content |-> "Visual insights about " \o Str(topic) \o " from "
                        \o Str(business_name) \o ". Perfect for "
                        \o Str(target_audience) \o " in " \o Str(industry) \o ".",
            image_type |-> "single_image",
            aspect_ratio |-> "1:1",
            text_overlay |-> FALSE,
            generate_image |-> TRUE]
      [] content_type = "carousel" ->
           [title |-> Str(topic) \o " - Complete Guide by " \o Str(business_name),
            content |-> "Swipe through our complete guide to " \o Str(topic)
                        \o "! Our expertise in " \o Str(industry) \o " helps "
                        \o Str(target_audience)
                        \o " achieve better results. Follow along for valuable insights!",
            carousel_images |->
                <<[slide |-> 1, focus |-> "Introduction",
                   description |-> "Why " \o Str(topic) \o " matters for "
                                   \o Str(target_audience)],
                  [slide |-> 2, focus |-> "Key Benefits",
                   description |-> "Benefits of " \o Str(topic) \o " in "
                                   \o Str(industry)],
                  [slide |-> 3, focus |-> "Our Approach",
                   description |-> "How " \o Str(business_name) \o " helps with "
                                   \o Str(topic)],
                  [slide |-> 4, focus |-> "Call to Action",
                   description |-> "Next steps for " \o Str(target_audience)]>>,
            image_type |-> "carousel",
            aspect_ratio |-> "1:1",
            slide_count |-> 4,
            generate_image |-> TRUE]
      [] content_type = "story" ->
           [title |-> "Quick Tip: " \o Str(topic),
            content |-> Str(topic) \o " hack for " \o Str(target_audience)
                        \o " in " \o Str(industry) \o "! At " \o Str(business_name)
                        \o ", we believe in " \o Str(brand_voice)
                        \o " communication. Tap to learn more!",
            image_type |-> "story",
            aspect_ratio |-> "9:16",
            duration |-> "15 seconds",
            interactive_elements |-> <<"tap_to_learn_more", "swipe_up">>,
            generate_image |-> TRUE]
      [] content_type = "reel" ->
           [title |-> Str(topic) \o " Explained",
            content |-> "Watch: How " \o Str(business_name) \o " helps "
                        \o Str(target_audience) \o " with " \o Str(topic)
                        \o ". Our " \o Str(industry) \o " expertise makes "
                        \o Str(unique_value) \o " possible!",
            reel_script |->
                [hook |-> "Did you know " \o Str(topic) \o " can transform your "
                          \o Str(industry) \o " business?",
                 value |-> "At " \o Str(business_name) \o ", we help "
                           \o Str(target_audience)
                           \o " achieve better results with " \o Str(topic),
                 story |-> "Here's how " \o Str(unique_value)
                           \o " makes the difference",
                 cta |-> "Learn more about our " \o Str(industry) \o " solutions!"],
            image_type |-> "video_thumbnail",
            aspect_ratio |-> "9:16",
            duration |-> "15-30 seconds",
            video_elements |-> <<"hook_clip", "explanation", "testimonial",
                                 "call_to_action">>,
            generate_image |-> FALSE,
            generate_script |-> TRUE]
      [] content_type = "video" ->
           [title |-> "Complete Guide: " \o Str(topic),
            content |-> "Full video: Everything you need to know about "
                        \o Str(topic) \o ". Our " \o Str(industry)
                        \o " experts at " \o Str(business_name)
                        \o " break it down for " \o Str(target_audience) \o "!",
            video_script |->
                [introduction |-> "Welcome to " \o Str(business_name)
                                  \o "s complete guide to " \o Str(topic),
                 main_content |-> "Detailed explanation of " \o Str(topic)
                                  \o " for " \o Str(target_audience) \o " in "
                                  \o Str(industry),
                 expert_insights |-> "Why " \o Str(unique_value) \o " matters",
                 conclusion |-> "How " \o Str(business_name)
                                \o " can help you with " \o Str(topic)],
            image_type |-> "video_thumbnail",
            aspect_ratio |-> "16:9",
            duration |-> "5-15 minutes",
            video_elements |-> <<"title_card", "expert_interview",
                                 "demonstration", "q_and_a">>,
            generate_image |-> FALSE,
            generate_script |-> TRUE]
      [] OTHER ->
           [title |-> Str(business_name) \o " - " \o Str(topic),
            content |-> "Exciting news from " \o Str(business_name)
                        \o "! We're sharing insights about " \o Str(topic)
                        \o " that matter to " \o Str(target_audience) \o " in "
                        \o Str(industry) \o ".",
            image_type |-> "single_image",
            aspect_ratio |-> "1:1",
            generate_image |-> TRUE]

\* The hashtag list (lines 558-572).  The select on profiles never names
\* hashtags_that_work_well, but a context carrying it is honoured.
generate_hashtags(content_type, topic, industry, business_context) ==
    IF Get(business_context, "hashtags_that_work_well", NULL) \notin {NULL, ""}
    THEN Split(business_context["hashtags_that_work_well"], ",")
    ELSE LET base_hashtags ==
                 <<"#Business", "#Success", "#" \o Replace(industry, " ", ""),
                   "#" \o Capitalize(Replace(topic, " ", ""))>>
         IN  IF content_type = "short_video or reel"
             THEN base_hashtags \o <<"#Reels", "#ShortVideo">>
             ELSE IF content_type = "carousel"
             THEN base_hashtags \o <<"#Carousel", "#Swipe">>
             ELSE IF content_type = "story"
             THEN base_hashtags \o <<"#Stories", "#BehindTheScenes">>
             ELSE base_hashtags

\* The hashtag step calls .replace on industry and topic: a null in either
\* raises, and the except clause of generate_content returns None.
hashtags_raise(topic, industry, business_context) ==
    /\ Get(business_context, "hashtags_that_work_well", NULL) \in {NULL, ""}
    /\ (industry = NULL \/ topic = NULL)

\* Lines 431-436: a list is replaced by its first element, an empty list by
\* the default.
first_if_list(v, default) ==
    IF IsList(v) THEN (IF Len(v) > 0 THEN v[1] ELSE default) ELSE v

\* Mutant: the dispatch reads a key the entry does not have, so every entry
\* gets the fields of the default branch.
generate_content_default_branch(entry, business_context) ==
    LET topic == entry.topic
        industry == first_if_list(Get(business_context, "industry", <<"general">>),
                                  "general")
        target_audience ==
            first_if_list(Get(business_context, "target_audience", <<"our audience">>),
                          "our audience")
        business_name == Get(business_context, "business_name", "Our Business")
    IN  IF hashtags_raise(topic, industry, business_context) THEN None
        ELSE Some(Update(
                 Update([platform |-> entry.platform, topic |-> topic,
                         content_type |-> entry.content_type,
                         business_name |-> business_name,
                         industry |-> industry,
                         target_audience |-> target_audience],
                        content_type_fields("", topic, business_name, industry,
                                            target_audience, "", "")),
                 [hashtags |-> generate_hashtags(entry.content_type, topic,
                                                 industry, business_context)]))

\* generate_content: Some(content_data), or None when its body raised.
generate_content(entry, business_context) ==
    LET topic == entry.topic
        platform == entry.platform
        content_type == entry.content_type
        content_theme == entry.content_theme
        visual_style == entry.visual_style
        business_name == Get(business_context, "business_name", "Our Business")
        brand_tone == Get(business_context, "brand_tone", "professional")
        brand_voice == Get(business_context, "brand_voice", "confident and innovative")
        industry == first_if_list(Get(business_context, "industry", <<"general">>),
                                  "general")
        target_audience ==
            first_if_list(Get(business_context, "target_audience", <<"our audience">>),
                          "our audience")
        unique_value == Get(business_context, "unique_value_proposition", "providing value")
        primary_color == Get(business_context, "primary_color", "#007bff")
        secondary_color == Get(business_context, "secondary_color", "#6c757d")
        content_data ==
            [platform |-> platform, topic |-> topic,
             content_type |-> content_type, content_theme |-> content_theme,
             visual_style |-> visual_style, tone |-> brand_tone,
             business_name |-> business_name, industry |-> industry,
             target_audience |-> target_audience, brand_voice |-> brand_voice,
             unique_value |-> unique_value, primary_color |-> primary_color,
             secondary_color |-> secondary_color]
    IN  IF hashtags_raise(topic, industry, business_context) THEN None
        ELSE Some(Update(
                 Update(content_data,
                        content_type_fields(content_type, topic, business_name,
                                            industry, target_audience,
                                            brand_voice, unique_value)),
                 [hashtags |-> generate_hashtags(content_type, topic, industry,
                                                 business_context)]))

----------------------------------------------------------------------------
(* Executions of a stage: the value it returns and the external calls it   *)
(* made, in order.                                                         *)

\* One external call: the operation, its outcome and what it was given.
Call(op, res, arg) == [op |-> op, res |-> res, arg |-> arg]

Exec(result, calls) == [result |-> result, calls |-> calls]

\* The calls that write outside the process.
WriteOps == {"storage_upload", "created_content_insert", "calendar_entries_update"}

----------------------------------------------------------------------------
(* Image Generation Stage *)

\* upload_image_to_supabase: download the generated image, upload it to the
\* bucket, return the public URL; every failure is caught and gives None.
upload_image_to_supabase(entry_id) ==
    {Exec(None, <<Call("image_download", "raise", "")>>),
     Exec(None, <<Call("image_download", "ok", ""),
                  Call("storage_upload", "raise", "")>>),
     Exec(None, <<Call("image_download", "ok", ""),
                  Call("storage_upload", "error", "")>>),
     Exec(Some("public_url"), <<Call("image_download", "ok", ""),
                                Call("storage_upload", "ok", "")>>)}

\* The texts the caption model may answer with.
CaptionResponses ==
    {<<"CAPTION: Big spring sale!">>,
     <<"Here is your caption", "  CAPTION: Big spring sale!  ">>,
     <<"Big spring sale!">>,
     <<"CAPTION:">>}

RECURSIVE parse_caption(_)
\* The loop over the response lines (lines 850-855): the first line that
\* starts with CAPTION: gives the caption.
parse_caption(lines) ==
    IF lines = <<>> THEN ""
    ELSE LET line == Strip(Head(lines))
         IN  IF StartsWith(line, "CAPTION:")
             THEN Strip(ReplaceAll(line, "CAPTION:", ""))
             ELSE parse_caption(Tail(lines))

\* Lines 809-871 for one answer of the caption model: response.raised when
\* the request raises, response.lines the lines of the text otherwise.
caption_for_response(topic, content_data, client, response) ==
    LET business_name == Get(content_data, "business_name", "Business")
        industry == Get(content_data, "industry", "general")
        target_audience == Get(content_data, "target_audience", "our audience")
    IN  IF ~client
        THEN "Exciting content about " \o Str(topic) \o " from "
             \o Str(business_name) \o "! Perfect for "
             \o Str(target_audience) \o " in " \o Str(industry)
             \o ". #Business #Success"
        ELSE IF response.raised
        THEN "Great content about " \o Str(topic) \o "! #Business #Success"
        ELSE IF parse_caption(response.lines) # ""
        THEN parse_caption(response.lines)
        ELSE "Check out this amazing content about " \o Str(topic)
             \o "! Perfect for " \o Str(target_audience) \o " in "
             \o Str(industry) \o ". #Business #Success"

\* generate_caption_for_image: always returns a caption.
generate_caption_for_image(topic, content_data, client) ==
    IF client
    THEN {Exec(caption_for_response(topic, content_data, client,
                                    [raised |-> TRUE, lines |-> <<>>]),
               <<Call("caption_request", "raise", "")>>)}
         \cup
         {Exec(caption_for_response(topic, content_data, client,
                                    [raised |-> FALSE, lines |-> r]),
               <<Call("caption_request", "ok", "")>>) : r \in CaptionResponses}
    ELSE {Exec(caption_for_response(topic, content_data, client,
                                    [raised |-> FALSE, lines |-> <<>>]), <<>>)}

\* Mutant: a caption is requested and an asset returned although the upload
\* gave no URL.
upload_and_caption_without_url(entry, content_data, client) ==
    UNION {{Exec(Some([image_url |-> IF u.result = None THEN NULL ELSE u.result[1],
                       caption |-> c.result]),
                 u.calls \o c.calls)
            : c \in generate_caption_for_image(entry.topic, content_data, client)}
           : u \in upload_image_to_supabase(entry.id)}

\* Mutant: the caption is requested for the generated image before it is
\* uploaded.
upload_and_caption_caption_first(entry, content_data, client) ==
    UNION {{IF u.result = None
            THEN Exec(None, c.calls \o u.calls)
            ELSE Exec(Some([image_url |-> u.result[1], caption |-> c.result]),
                      c.calls \o u.calls)
            : c \in generate_caption_for_image(entry.topic, content_data, client)}
           : u \in upload_image_to_supabase(entry.id)}

\* What follows a successful image-generation call (lines 619-646 and
\* 661-687): upload, then a caption only if the upload gave a URL.
upload_and_caption(entry, content_data, client) ==
    UNION {IF u.result = None
           THEN {Exec(None, u.calls)}
           ELSE {Exec(Some([image_url |-> u.result[1], caption |-> c.result]),
                      u.calls \o c.calls)
                 : c \in generate_caption_for_image(entry.topic, content_data, client)}
           : u \in upload_image_to_supabase(entry.id)}

\* Mutant: the basic prompt is also tried when the upload gave no URL.
generate_with_retry_after_upload(entry, content_data, client) ==
    {Exec(x.result, <<Call("image_generate", "ok", "composed_prompt")>> \o x.calls)
     : x \in {y \in upload_and_caption(entry, content_data, client) : y.result # None}}
    \cup
    UNION {{Exec(x.result, <<Call("image_generate", "ok", "composed_prompt")>>
                           \o y.calls
                           \o <<Call("image_generate", "ok", "basic_prompt")>>
                           \o x.calls)
            : x \in upload_and_caption(entry, content_data, client)}
           : y \in {z \in upload_and_caption(entry, content_data, client)
                    : z.result = None}}
    \cup
    {Exec(x.result, <<Call("image_generate", "raise", "composed_prompt"),
                      Call("image_generate", "ok", "basic_prompt")>> \o x.calls)
     : x \in upload_and_caption(entry, content_data, client)}
    \cup
    {Exec(None, <<Call("image_generate", "raise", "composed_prompt"),
                  Call("image_generate", "raise", "basic_prompt")>>)}

\* The try block around the image-generation call with the composed prompt;
\* when the call raises, one more call with the basic prompt (lines 607-693).
generate_with_retry(entry, content_data, client) ==
    {Exec(x.result, <<Call("image_generate", "ok", "composed_prompt")>> \o x.calls)
     : x \in upload_and_caption(entry, content_data, client)}
    \cup
    {Exec(x.result, <<Call("image_generate", "raise", "composed_prompt"),
                      Call("image_generate", "ok", "basic_prompt")>> \o x.calls)
     : x \in upload_and_caption(entry, content_data, client)}
    \cup
    {Exec(None, <<Call("image_generate", "raise", "composed_prompt"),
                  Call("image_generate", "raise", "basic_prompt")>>)}

\* Mutant: the image-generation call is made whether or not a client is
\* configured.
generate_and_save_images_any_client(entry, content_data, client) ==
    IF entry.topic = NULL
    THEN {Exec(None, <<>>)}
    ELSE UNION {
           LET select == <<Call("profiles_select", ProfileResult(response), "")>>
           IN  {Exec(x.result, select \o x.calls)
                : x \in generate_with_retry(entry, content_data, client)}
           : response \in ProfileResponses}

\* generate_and_save_images: None, or Some([image_url, caption]).  The
\* profile is loaded again; the composed prompt is never empty (lines
\* 711-716), so the call is made whenever a client is configured.
generate_and_save_images(entry, content_data, client) ==
    IF entry.topic = NULL
    THEN {Exec(None, <<>>)}
    ELSE UNION {
           LET business_context == load_user_profile(response)
               select == <<Call("profiles_select", ProfileResult(response), "")>>
           IN  IF client
               THEN {Exec(x.result, select \o x.calls)
                     : x \in generate_with_retry(entry, content_data, client)}
               ELSE {Exec(None, select)}
           : response \in ProfileResponses}

----------------------------------------------------------------------------
(* Persistence Stage *)

\* _format_reel_script
format_reel_script(reel_script) ==
    Join(SelectSeq(<<
            IF Get(reel_script, "hook", "") # "" THEN "HOOK: " \o reel_script.hook ELSE "",
            IF Get(reel_script, "value", "") # "" THEN "VALUE: " \o reel_script.value ELSE "",
            IF Get(reel_script, "story", "") # "" THEN "STORY: " \o reel_script.story ELSE "",
            IF Get(reel_script, "cta", "") # "" THEN "CTA: " \o reel_script.cta ELSE "">>,
         LAMBDA part : part # ""), "\n\n")

\* _format_video_script
format_video_script(video_script) ==
    Join(SelectSeq(<<
            IF Get(video_script, "introduction", "") # ""
            THEN "INTRODUCTION: " \o video_script.introduction ELSE "",
            IF Get(video_script, "main_content", "") # ""
            THEN "MAIN CONTENT: " \o video_script.main_content ELSE "",
            IF Get(video_script, "expert_insights", "") # ""
            THEN "EXPERT INSIGHTS: " \o video_script.expert_insights ELSE "",
            IF Get(video_script, "conclusion", "") # ""
            THEN "CONCLUSION: " \o video_script.conclusion ELSE "">>,
         LAMBDA part : part # ""), "\n\n")

\* Mutant: every slide descriptor counts as an image, under its description.
carousel_urls_of_descriptors(content_data) ==
    LET items == Get(content_data, "carousel_images", <<>>)
    IN  [i \in 1..Len(items) |-> items[i].description]

\* The URLs collected from content_data['carousel_images'] (lines 915-923):
\* the synthesized slide descriptors are dicts without image_url.
carousel_urls(content_data) ==
    LET items == Get(content_data, "carousel_images", <<>>)
        with_url == SelectSeq(items, LAMBDA item : "image_url" \in DOMAIN item)
    IN  [i \in 1..Len(with_url) |-> with_url[i].image_url]

\* Mutant: the synthesized text is preferred to the caption.
created_content_row_prefers_text(entry, content_data, user_id, image_url, caption) ==
    LET topic == entry.topic
        base ==
            [user_id |-> user_id,
             platform |-> IF entry.platform = NULL THEN NULL ELSE Lower(entry.platform),
             content_type |-> Lower(entry.content_type),
             title |-> Get(content_data, "title",
                           Str(Get(content_data, "business_name", "Business"))
                           \o ": " \o Str(topic)),
             content |-> IF "content" \in DOMAIN content_data THEN content_data.content
                         ELSE IF caption # None THEN caption[1]
                         ELSE "Content about " \o Str(topic),
             status |-> "generated",
             channel |-> "Social Media",
             hashtags |-> Get(content_data, "hashtags", <<>>),
             metadata |-> [calendar_entry_id |-> entry.id,
                           content_theme |-> entry.content_theme,
                           visual_style |-> entry.visual_style,
                           topic |-> topic,
                           generated_by |-> "content_generation_cron"]]
        images == IF image_url # None
                  THEN [images |-> <<image_url[1]>>, media_url |-> image_url[1]]
                  ELSE <<>>
        carousel == IF carousel_urls(content_data) # <<>>
                    THEN [carousel_images |-> carousel_urls(content_data)]
                    ELSE <<>>
        reel == IF "reel_script" \in DOMAIN content_data
                THEN [short_video_script |-> format_reel_script(content_data.reel_script)]
                ELSE <<>>
        video == IF "video_script" \in DOMAIN content_data
                 THEN [long_video_script |-> format_video_script(content_data.video_script)]
                 ELSE <<>>
        schedule == IF entry.entry_date # NULL
                    THEN [scheduled_date |-> entry.entry_date]
                    ELSE <<>>
    IN  Update(Update(Update(Update(Update(base, images), carousel), reel), video),
               schedule)

\* db_data, the row save_to_created_content builds (lines 890-944).
created_content_row(entry, content_data, user_id, image_url, caption) ==
    LET topic == entry.topic
        base ==
            [user_id |-> user_id,
             platform |-> IF entry.platform = NULL THEN NULL ELSE Lower(entry.platform),
             content_type |-> Lower(entry.content_type),
             title |-> Get(content_data, "title",
                           Str(Get(content_data, "business_name", "Business"))
                           \o ": " \o Str(topic)),
             content |-> IF caption # None THEN caption[1]
                         ELSE Get(content_data, "content", "Content about " \o Str(topic)),
             status |-> "generated",
             channel |-> "Social Media",
             hashtags |-> Get(content_data, "hashtags", <<>>),
             metadata |-> [calendar_entry_id |-> entry.id,
                           content_theme |-> entry.content_theme,
                           visual_style |-> entry.visual_style,
                           topic |-> topic,
                           generated_by |-> "content_generation_cron"]]
        images == IF image_url # None
                  THEN [images |-> <<image_url[1]>>, media_url |-> image_url[1]]
                  ELSE <<>>
        carousel == IF carousel_urls(content_data) # <<>>
                    THEN [carousel_images |-> carousel_urls(content_data)]
                    ELSE <<>>
        reel == IF "reel_script" \in DOMAIN content_data
                THEN [short_video_script |-> format_reel_script(content_data.reel_script)]
                ELSE <<>>
        video == IF "video_script" \in DOMAIN content_data
                 THEN [long_video_script |-> format_video_script(content_data.video_script)]
                 ELSE <<>>
        schedule == IF entry.entry_date # NULL
                    THEN [scheduled_date |-> entry.entry_date]
                    ELSE <<>>
    IN  Update(Update(Update(Update(Update(base, images), carousel), reel), video),
               schedule)

\* Mutant: an insert that raised is tried once more.
save_to_created_content_retrying(entry, content_data, user_id, image_url, caption) ==
    IF entry.content_type = NULL
    THEN {Exec(None, <<>>)}
    ELSE LET row == created_content_row(entry, content_data, user_id,
                                        image_url, caption)
         IN  {Exec(Some(row), <<Call("created_content_insert", "ok", "")>>),
              Exec(Some(row), <<Call("created_content_insert", "raise", ""),
                                Call("created_content_insert", "ok", "")>>)}

\* save_to_created_content: Some(row) when the insert was applied, None when
\* building the row raised (content_type is null: .lower() on None) or the
\* insert raised; neither exception leaves the function.
save_to_created_content(entry, content_data, user_id, image_url, caption) ==
    IF entry.content_type = NULL
    THEN {Exec(None, <<>>)}
    ELSE LET row == created_content_row(entry, content_data, user_id,
                                        image_url, caption)
         IN  {Exec(Some(row), <<Call("created_content_insert", "ok", "")>>),
              Exec(None, <<Call("created_content_insert", "raise", "")>>)}

----------------------------------------------------------------------------
(* Pipeline Orchestrator: process_single_entry *)

\* An execution of process_single_entry: whether an exception left it, the
\* calls it made, the created_content row it inserted (None if none was
\* applied) and whether its update of the entry was applied.
PExec(raised, calls, row, marked) ==
    [raised |-> raised, calls |-> calls, row |-> row, marked |-> marked]

\* The update of calendar_entries (lines 219-223); it is outside any try.
mark_entry(entry_id) ==
    {[raised |-> FALSE, marked |-> TRUE,
      calls |-> <<Call("calendar_entries_update", "ok", "")>>],
     [raised |-> TRUE, marked |-> FALSE,
      calls |-> <<Call("calendar_entries_update", "raise", "")>>]}

\* Mutant: the image stage runs whatever generate_image says.
image_stage_always(entry, content_data, client) ==
    generate_and_save_images(entry, content_data, client)

\* Mutant: the image stage runs for a fixed list of content types.
image_stage_listed_types(entry, content_data, client) ==
    IF entry.content_type \in {"static_post", "image_post", "carousel", "story"}
    THEN generate_and_save_images(entry, content_data, client)
    ELSE {Exec(None, <<>>)}

\* Lines 192-204: the image stage runs only if content_data.generate_image.
image_stage(entry, content_data, client) ==
    IF Get(content_data, "generate_image", TRUE)
    THEN generate_and_save_images(entry, content_data, client)
    ELSE {Exec(None, <<>>)}

\* Mutant: the entry is marked before the row is saved.
persist_and_mark_first(entry, content_data, user_id, asset) ==
    UNION {{PExec(m.raised, m.calls \o sv.calls, sv.result, m.marked)
            : m \in mark_entry(entry.id)}
           : sv \in save_to_created_content(
                        entry, content_data, user_id,
                        IF asset = None THEN None ELSE Some(asset[1].image_url),
                        IF asset = None THEN None ELSE Some(asset[1].caption))}

\* Mutant: an insert that raised ends the processing of the entry with the
\* exception; the entry is not marked.
persist_and_mark_insert_raises(entry, content_data, user_id, asset) ==
    UNION {IF sv.calls # <<>> /\ sv.calls[Len(sv.calls)].res = "raise"
           THEN {PExec(TRUE, sv.calls, sv.result, FALSE)}
           ELSE {PExec(m.raised, sv.calls \o m.calls, sv.result, m.marked)
                 : m \in mark_entry(entry.id)}
           : sv \in save_to_created_content(
                        entry, content_data, user_id,
                        IF asset = None THEN None ELSE Some(asset[1].image_url),
                        IF asset = None THEN None ELSE Some(asset[1].caption))}

\* Lines 209-223: save the row, then mark the entry.
persist_and_mark(entry, content_data, user_id, asset) ==
    UNION {{PExec(m.raised, sv.calls \o m.calls, sv.result, m.marked)
            : m \in mark_entry(entry.id)}
           : sv \in save_to_created_content(
                        entry, content_data, user_id,
                        IF asset = None THEN None ELSE Some(asset[1].image_url),
                        IF asset = None THEN None ELSE Some(asset[1].caption))}

\* Mutant: an entry without an asset is neither saved nor marked.
synthesize_and_persist_needs_asset(entry, business_context, user_id, client) ==
    LET content_data == generate_content(entry, business_context)
    IN  IF content_data = None
        THEN {PExec(FALSE, <<Call("generate_content", "none", "")>>, None, FALSE)}
        ELSE UNION {IF g.result = None /\ Get(content_data[1], "generate_image", TRUE)
                    THEN {PExec(FALSE, <<Call("generate_content", "ok", "")>> \o g.calls,
                                None, FALSE)}
                    ELSE {PExec(x.raised,
                                <<Call("generate_content", "ok", "")>> \o g.calls \o x.calls,
                                x.row, x.marked)
                          : x \in persist_and_mark(entry, content_data[1], user_id, g.result)}
                    : g \in image_stage(entry, content_data[1], client)}

\* Mutant: the entry is marked although synthesis returned None.
synthesize_and_persist_marks_failed(entry, business_context, user_id, client) ==
    LET content_data == generate_content(entry, business_context)
    IN  IF content_data = None
        THEN {PExec(m.raised, <<Call("generate_content", "none", "")>> \o m.calls,
                    None, m.marked) : m \in mark_entry(entry.id)}
        ELSE UNION {{PExec(x.raised,
                           <<Call("generate_content", "ok", "")>> \o g.calls \o x.calls,
                           x.row, x.marked)
                     : x \in persist_and_mark(entry, content_data[1], user_id, g.result)}
                    : g \in image_stage(entry, content_data[1], client)}

\* Lines 189-225: synthesis and what follows it.
synthesize_and_persist(entry, business_context, user_id, client) ==
    LET content_data == generate_content(entry, business_context)
    IN  IF content_data = None
        THEN {PExec(FALSE, <<Call("generate_content", "none", "")>>, None, FALSE)}
        ELSE UNION {{PExec(x.raised,
                           <<Call("generate_content", "ok", "")>> \o g.calls \o x.calls,
                           x.row, x.marked)
                     : x \in persist_and_mark(entry, content_data[1], user_id, g.result)}
                    : g \in image_stage(entry, content_data[1], client)}

\* Mutant: an empty context is replaced by the minimal defaults.
load_profile_and_continue_defaults(entry, user_id, client) ==
    UNION {LET loaded == load_user_profile(response)
               business_context == IF loaded = <<>> THEN minimal_defaults ELSE loaded
               select == <<Call("profiles_select", ProfileResult(response), "")>>
           IN  {PExec(x.raised, select \o x.calls, x.row, x.marked)
                : x \in synthesize_and_persist(entry, business_context,
                                               user_id, client)}
           : response \in ProfileResponses}

\* Lines 181-186: load the profile; an empty context ends the processing.
load_profile_and_continue(entry, user_id, client) ==
    UNION {LET business_context == load_user_profile(response)
               select == <<Call("profiles_select", ProfileResult(response), "")>>
           IN  IF business_context = <<>>
               THEN {PExec(FALSE, select, None, FALSE)}
               ELSE {PExec(x.raised, select \o x.calls, x.row, x.marked)
                     : x \in synthesize_and_persist(entry, business_context,
                                                    user_id, client)}
           : response \in ProfileResponses}

\* process_single_entry: the select on social_media_calendars raises (the
\* exception leaves the function), finds no row (return) or gives the user.
process_single_entry(entry, client) ==
    {PExec(TRUE, <<Call("calendars_select", "raise", "")>>, None, FALSE),
     PExec(FALSE, <<Call("calendars_select", "none", "")>>, None, FALSE)}
    \cup
    {PExec(x.raised, <<Call("calendars_select", "row", "")>> \o x.calls,
           x.row, x.marked)
     : x \in load_profile_and_continue(entry, "user_1", client)}

----------------------------------------------------------------------------
(* Tables *)

\* What the calendar-planning process may have written to the columns
\* content_type and topic of an entry: an image-bearing type, the two
\* script-only types, and an entry whose topic was left null.
EntryKinds ==
    {[content_type |-> "static_post", topic |-> "Spring Sale"],
     [content_type |-> "reel", topic |-> "Spring Sale"],
     [content_type |-> "video", topic |-> "Spring Sale"],
     [content_type |-> "static_post", topic |-> NULL]}

\* A calendar_entries row as the calendar-planning process creates it.
NewEntry(id, content_type, topic) ==
    [id |-> id, calendar_id |-> id, entry_date |-> "2025-03-01",
     content_type |-> content_type, content_theme |-> "business",
     topic |-> topic, platform |-> "Instagram", visual_style |-> NULL,
     status |-> "pending", content |-> FALSE, updated_at |-> "created"]

\* The columns named in the select of process_calendar_entries (lines 141-144).
SelectedColumns ==
    {"id", "calendar_id", "entry_date", "content_type", "content_theme",
     "topic", "platform", "visual_style", "status"}

SelectedRow(row) == [k \in SelectedColumns |-> row[k]]

RECURSIVE RowsFrom(_, _, _)
\* The rows with the given ids, in id order.
RowsFrom(table, ids, from) ==
    IF from > NumEntries THEN <<>>
    ELSE (IF from \in ids THEN <<SelectedRow(table[from])>> ELSE <<>>)
         \o RowsFrom(table, ids, from + 1)

\* Mutant: the batch query without its filter.
pending_entries_unfiltered(table) == RowsFrom(table, Entries, 1)

\* The batch query: .eq('content', False)
pending_entries(table) ==
    RowsFrom(table, {e \in Entries : table[e].content = FALSE}, 1)

\* Mutant: a failed query is taken for a full result.
query_batch_ignoring_error(outcome, table) == pending_entries(table)

\* response.data as the loop sees it: nothing when the query raised.
query_batch(outcome, table) ==
    IF outcome = "raise" THEN <<>> ELSE pending_entries(table)

\* Mutant: the update writes the selected row back, with its topic trimmed.
apply_update_whole_row(table, entry_id) ==
    [table EXCEPT ![entry_id].content = TRUE,
                  ![entry_id].status = "content_generated",
                  ![entry_id].updated_at = "now",
                  ![entry_id].topic = "",
                  ![entry_id].visual_style = "minimal_clean_bold_typography"]

\* The update of lines 219-223 applied to the table.
apply_update(table, entry_id) ==
    [table EXCEPT ![entry_id].content = TRUE,
                  ![entry_id].status = "content_generated",
                  ![entry_id].updated_at = "now"]

----------------------------------------------------------------------------
(* Pipeline Orchestrator: process_calendar_entries *)

\* The rows a batch can hold, and for each of them (with and without an
\* image client) the executions of process_single_entry.
BatchRows ==
    {SelectedRow([NewEntry(e, k.content_type, k.topic) EXCEPT !.status = st])
     : e \in Entries, k \in EntryKinds, st \in {"pending", "content_generated"}}

EntryExecutions ==
    [entry \in BatchRows, client \in BOOLEAN |->
        process_single_entry(entry, client)]

\* The execution made a call of this operation with this outcome.
HasCall(calls, op, res) ==
    \E i \in 1..Len(calls) : calls[i].op = op /\ calls[i].res = res

\* Line 225: the entry is logged as successfully processed when its update
\* returned.
logged_successes(ids, id, marked) == IF marked THEN ids \cup {id} ELSE ids

\* Mutant: the entries of the batch are claimed when they are read.
after_batch_read_claiming(table, rows) ==
    [e \in Entries |->
        IF \E i \in 1..Len(rows) : rows[i].id = e
        THEN [table[e] EXCEPT !.status = "processing"]
        ELSE table[e]]

\* Lines 141-150: the batch query is a select; between the read and the
\* loop nothing is written to calendar_entries.
after_batch_read(table, rows) == table

\* Lines 155-156: the except clause of the loop logs one error line.
caught_errors(count, raised) == IF raised THEN count + 1 ELSE count

\* Mutant: an exception of one entry ends the loop.
after_entry_abort(raised, more) ==
    IF raised THEN "done" ELSE IF more THEN "running" ELSE "done"

\* Mutant: the loop is not left after the last entry.
after_entry_spinning(raised, more) == "running"

\* Lines 152-157: an exception of process_single_entry is caught and the
\* loop continues with the next entry; the run is over after the last one.
after_entry(raised, more) == IF more THEN "running" ELSE "done"

\* The insert of lines 947-950 applied to the table: one more row whose
\* metadata.calendar_entry_id is the entry's id.
apply_insert(table, row) ==
    [table EXCEPT ![row.metadata.calendar_entry_id] = @ + 1]

\* The number of rows the table holds for the entries 1..n.
RECURSIVE RowsIn(_, _)
RowsIn(table, n) == IF n = 0 THEN 0 ELSE table[n] + RowsIn(table, n - 1)

Idle(p) ==
    /\ pc[p] = "idle"

TypeOK ==
    /\ pc \in [Procs -> {"idle", "running", "done"}]
    /\ openai_client \in [Procs -> BOOLEAN]
    /\ idx \in [Procs -> 0..NumEntries]
    /\ query \in [Procs -> {"none", "ok", "raise"}]
    /\ errors \in [Procs -> 0..NumEntries]
    /\ processed \in [Procs -> SUBSET Entries]
    /\ created_content \in [Entries -> 0..(MaxRows + NumEntries)]
    /\ \A e \in Entries : calendar_entries[e].content \in BOOLEAN

\* No call of the profile loader or of the classifier is being looked at.
InitLoaderIdle ==
    /\ loader_response = None
    /\ loader_contexts = <<>>

InitClassifierIdle ==
    /\ classifier_args = None
    /\ classifier_results = <<>>

\* No call of the synthesizer, the prompt composer or the caption generator
\* is being looked at.
InitStagesIdle ==
    /\ synth_args = None
    /\ synth_results = <<>>
    /\ composer_args = None
    /\ composer_results = <<>>
    /\ caption_args = None
    /\ caption_results = <<>>
    /\ path_args = None
    /\ path_results = <<>>

\* No process has been started.
InitProcesses ==
    /\ pc = [p \in Procs |-> "idle"]
    /\ openai_client = [p \in Procs |-> FALSE]
    /\ batch = [p \in Procs |-> <<>>]
    /\ idx = [p \in Procs |-> 0]
    /\ query = [p \in Procs |-> "none"]
    /\ errors = [p \in Procs |-> 0]
    /\ processed = [p \in Procs |-> {}]
    /\ last = [p \in Procs |-> None]
    /\ running = [p \in Procs |-> {}]

Init ==
    /\ calendar_entries \in
           {[e \in Entries |-> NewEntry(e, kind[e].content_type, kind[e].topic)]
            : kind \in [Entries -> EntryKinds]}
    /\ created_content = [e \in Entries |-> 0]
    /\ InitProcesses
    /\ InitLoaderIdle
    /\ InitClassifierIdle
    /\ InitStagesIdle

\* main(): construct ContentGenerationCron (the image client is configured
\* or not) and run the batch query of process_calendar_entries.  The run
\* ends at once when the query raises or returns no rows.  Runs are started
\* as long as created_content holds fewer than MaxRows rows.
StartRun(p) ==
    /\ UNCHANGED <<loader_vars, classifier_vars, stage_vars>>
    /\ Idle(p)
    /\ RowsIn(created_content, NumEntries) < MaxRows
    /\ \E client \in BOOLEAN, outcome \in {"ok", "raise"} :
         LET rows == query_batch(outcome, calendar_entries)
         IN  /\ openai_client' = [openai_client EXCEPT ![p] = client]
             /\ query' = [query EXCEPT ![p] = outcome]
             /\ batch' = [batch EXCEPT ![p] = rows]
             /\ pc' = [pc EXCEPT ![p] = IF rows = <<>> THEN "done" ELSE "running"]
             /\ calendar_entries' = after_batch_read(calendar_entries, rows)
    /\ idx' = [idx EXCEPT ![p] = 0]
    /\ errors' = [errors EXCEPT ![p] = 0]
    /\ processed' = [processed EXCEPT ![p] = {}]
    /\ last' = [last EXCEPT ![p] = None]
    /\ UNCHANGED <<created_content, running>>

\* The body of the loop for the next entry of the batch: one execution of
\* process_single_entry, with the writes it applied.
ProcessEntry(p) ==
    /\ UNCHANGED <<loader_vars, classifier_vars, stage_vars>>
    /\ pc[p] = "running"
    /\ last[p] = None
    /\ idx[p] < Len(batch[p])
    /\ LET entry == batch[p][idx[p] + 1]
       IN  \E x \in EntryExecutions[entry, openai_client[p]] :
             /\ last' = [last EXCEPT ![p] = Some([entry |-> entry.id, exec |-> x])]
             /\ errors' = [errors EXCEPT ![p] = caught_errors(errors[p], x.raised)]
             /\ processed' = [processed EXCEPT ![p] =
                                 logged_successes(processed[p], entry.id, x.marked)]
             /\ created_content' =
                    IF x.row = None THEN created_content
                    ELSE apply_insert(created_content, x.row[1])
             /\ calendar_entries' =
                    IF x.marked THEN apply_update(calendar_entries, entry.id)
                    ELSE calendar_entries
    /\ UNCHANGED <<pc, openai_client, batch, idx, query, running>>

\* The loop moves on: to the next entry, or to the end of the run.
NextEntry(p) ==
    /\ UNCHANGED <<loader_vars, classifier_vars, stage_vars>>
    /\ pc[p] = "running"
    /\ last[p] # None
    /\ idx' = [idx EXCEPT ![p] = idx[p] + 1]
    /\ pc' = [pc EXCEPT ![p] =
                 after_entry(last[p][1].exec.raised, idx[p] + 1 < Len(batch[p]))]
    /\ last' = [last EXCEPT ![p] = None]
    /\ UNCHANGED <<calendar_entries, created_content, openai_client, batch,
                   query, errors, processed, running>>

\* The process ends; nothing of it remains but what it wrote to the tables.
Exit(p) ==
    /\ UNCHANGED <<loader_vars, classifier_vars, stage_vars>>
    /\ pc[p] = "done"
    /\ pc' = [pc EXCEPT ![p] = "idle"]
    /\ openai_client' = [openai_client EXCEPT ![p] = FALSE]
    /\ batch' = [batch EXCEPT ![p] = <<>>]
    /\ idx' = [idx EXCEPT ![p] = 0]
    /\ query' = [query EXCEPT ![p] = "none"]
    /\ errors' = [errors EXCEPT ![p] = 0]
    /\ processed' = [processed EXCEPT ![p] = {}]
    /\ last' = [last EXCEPT ![p] = None]
    /\ UNCHANGED <<calendar_entries, created_content, running>>

\* Runs that do not overlap: the scheduler starts cron_a again and again.
Next ==
    \/ StartRun("cron_a")
    \/ ProcessEntry("cron_a")
    \/ NextEntry("cron_a")
    \/ Exit("cron_a")

Spec == Init /\ [][Next]_vars

----------------------------------------------------------------------------
(* The loop of process_calendar_entries call by call: an entry is begun,   *)
(* makes the calls of one of its executions one at a time, each write       *)
(* taking effect when its call is made, and is finished with its last call. *)

\* The sequences of calls an execution of the entry starts with.
Prefixes(entry, client) ==
    UNION {{SubSeq(x.calls, 1, k) : k \in 0..Len(x.calls)}
           : x \in EntryExecutions[entry, client]}

\* The executions of the entry that start with the calls made so far.
ContinuationsOf ==
    [entry \in BatchRows, client \in BOOLEAN |->
        [done \in Prefixes(entry, client) |->
            {x \in EntryExecutions[entry, client] :
                /\ Len(done) < Len(x.calls)
                /\ SubSeq(x.calls, 1, Len(done)) = done}]]

Continuations(entry, client, done) == ContinuationsOf[entry, client][done]

\* The table after the call was made for the entry.
created_content_after(table, id, call) ==
    IF call.op = "created_content_insert" /\ call.res = "ok"
    THEN apply_insert(table, [metadata |-> [calendar_entry_id |-> id]])
    ELSE table

calendar_entries_after(table, id, call) ==
    IF call.op = "calendar_entries_update" /\ call.res = "ok"
    THEN apply_update(table, id)
    ELSE table

\* Mutant: the loop does not wait for the entry it began.
can_begin_without_awaiting(begun) == TRUE

\* Lines 152-154: the loop awaits process_single_entry, so the next entry is
\* begun only when no entry of the run is unfinished.
can_begin(begun) == begun = {}

BeginEntry(p) ==
    /\ UNCHANGED <<loader_vars, classifier_vars, stage_vars>>
    /\ pc[p] = "running"
    /\ last[p] = None
    /\ can_begin(running[p])
    /\ idx[p] + Cardinality(running[p]) < Len(batch[p])
    /\ running' = [running EXCEPT ![p] =
                      @ \cup {[index |-> idx[p] + Cardinality(running[p]) + 1,
                               done |-> <<>>]}]
    /\ UNCHANGED <<calendar_entries, created_content, pc, openai_client,
                   batch, idx, query, errors, processed, last>>

\* An unfinished entry makes its next call; with the last call of an
\* execution process_single_entry returns or raises.
MakeCall(p) ==
    /\ UNCHANGED <<loader_vars, classifier_vars, stage_vars>>
    /\ pc[p] = "running"
    /\ last[p] = None
    /\ \E r \in running[p] :
         LET entry == batch[p][r.index]
             n == Len(r.done) + 1
             conts == Continuations(entry, openai_client[p], r.done)
         IN  \/ \E call \in {x.calls[n] : x \in {y \in conts : Len(y.calls) > n}} :
                  /\ running' = [running EXCEPT ![p] =
                                    (@ \ {r}) \cup
                                    {[r EXCEPT !.done = Append(r.done, call)]}]
                  /\ created_content' =
                         created_content_after(created_content, entry.id, call)
                  /\ calendar_entries' =
                         calendar_entries_after(calendar_entries, entry.id, call)
                  /\ UNCHANGED <<errors, processed, last>>
             \/ \E x \in {y \in conts : Len(y.calls) = n} :
                  /\ running' = [running EXCEPT ![p] = @ \ {r}]
                  /\ created_content' =
                         created_content_after(created_content, entry.id, x.calls[n])
                  /\ calendar_entries' =
                         calendar_entries_after(calendar_entries, entry.id, x.calls[n])
                  /\ errors' = [errors EXCEPT ![p] = caught_errors(errors[p], x.raised)]
                  /\ processed' = [processed EXCEPT ![p] =
                                      logged_successes(processed[p], entry.id, x.marked)]
                  /\ last' = [last EXCEPT ![p] =
                                 Some([entry |-> entry.id, exec |-> x])]
    /\ UNCHANGED <<pc, openai_client, batch, idx, query>>

NextSteps ==
    \/ StartRun("cron_a")
    \/ BeginEntry("cron_a")
    \/ MakeCall("cron_a")
    \/ NextEntry("cron_a")
    \/ Exit("cron_a")

SpecSteps == Init /\ [][NextSteps]_vars

\* The loop under the assumption that every external call returns or raises:
\* an entry that can be begun is begun, an unfinished entry makes its next
\* call, and the loop moves on after an entry has returned or raised.
SpecStepsFair ==
    /\ SpecSteps
    /\ WF_vars(BeginEntry("cron_a"))
    /\ WF_vars(MakeCall("cron_a"))
    /\ WF_vars(NextEntry("cron_a"))

----------------------------------------------------------------------------
(* Runs that overlap: two processes, each iterating the batch it read,   *)
(* one whole iteration of the loop at a time.                              *)

\* What the executions of an entry leave behind: whether an exception left
\* process_single_entry, whether a row was inserted, whether the update was
\* applied.
EntryEffects ==
    [entry \in BatchRows, client \in BOOLEAN |->
        {[raised |-> x.raised,
          inserted |-> x.row # None,
          id |-> IF x.row = None THEN entry.id
                 ELSE x.row[1].metadata.calendar_entry_id,
          marked |-> x.marked]
         : x \in EntryExecutions[entry, client]}]

\* One iteration of the loop of lines 152-157: the entry is processed and
\* the loop moves on.
IterateEntry(p) ==
    /\ UNCHANGED <<loader_vars, classifier_vars, stage_vars>>
    /\ pc[p] = "running"
    /\ last[p] = None
    /\ idx[p] < Len(batch[p])
    /\ LET entry == batch[p][idx[p] + 1]
       IN  \E x \in EntryEffects[entry, openai_client[p]] :
             /\ errors' = [errors EXCEPT ![p] = caught_errors(errors[p], x.raised)]
             /\ processed' = [processed EXCEPT ![p] =
                                 logged_successes(processed[p], entry.id, x.marked)]
             /\ created_content' =
                    IF x.inserted
                    THEN apply_insert(created_content,
                                      [metadata |-> [calendar_entry_id |-> x.id]])
                    ELSE created_content
             /\ calendar_entries' =
                    IF x.marked THEN apply_update(calendar_entries, entry.id)
                    ELSE calendar_entries
             /\ pc' = [pc EXCEPT ![p] =
                          after_entry(x.raised, idx[p] + 1 < Len(batch[p]))]
    /\ idx' = [idx EXCEPT ![p] = idx[p] + 1]
    /\ UNCHANGED <<openai_client, batch, query, last, running>>

NextOverlap ==
    \E p \in Procs :
        \/ StartRun(p)
        \/ IterateEntry(p)
        \/ Exit(p)

SpecOverlap == Init /\ [][NextOverlap]_vars

----------------------------------------------------------------------------
(* The Profile Loader on its own: one select on profiles, the context      *)
(* _load_user_profile makes of it, and the defaults merged into that       *)
(* context once more.                                                       *)

\* The columns the dict `defaults` reads (lines 99-109), but brand_colors.
defaulted_columns ==
    {"brand_tone", "business_name", "industry", "target_audience",
     "unique_value_proposition", "brand_voice", "content_themes",
     "primary_color", "secondary_color"}

\* Profile rows in which each of these columns is set, null or missing.
LoaderRows ==
    {[k \in basic_fields \ {c \in defaulted_columns : f[c] = "absent"} |->
         IF k \in defaulted_columns /\ f[k] = "null" THEN NULL
         ELSE CompleteProfile[k]]
     : f \in [defaulted_columns -> {"set", "null", "absent"}]}

LoaderResponses ==
    {[raised |-> TRUE, data |-> <<>>], [raised |-> FALSE, data |-> <<>>]}
    \cup {[raised |-> FALSE, data |-> <<r>>] : r \in LoaderRows}

InitLoader ==
    /\ calendar_entries = [e \in Entries |-> NewEntry(e, "static_post", "Spring Sale")]
    /\ created_content = [e \in Entries |-> 0]
    /\ InitProcesses
    /\ loader_response \in {Some(r) : r \in LoaderResponses}
    /\ loader_contexts = <<>>
    /\ InitClassifierIdle
    /\ InitStagesIdle

\* _load_user_profile is called.
LoadProfile ==
    /\ loader_response # None
    /\ loader_contexts = <<>>
    /\ loader_contexts' = <<load_user_profile(loader_response[1])>>
    /\ UNCHANGED <<pipeline_vars, loader_response, classifier_vars, stage_vars>>

\* The defaulting of lines 98-113 applied to the context a row gave.
MergeAgain ==
    /\ loader_response # None
    /\ ProfileResult(loader_response[1]) = "row"
    /\ Len(loader_contexts) = 1
    /\ loader_contexts' = Append(loader_contexts, merge_defaults(loader_contexts[1]))
    /\ UNCHANGED <<pipeline_vars, loader_response, classifier_vars, stage_vars>>

NextLoader ==
    \/ LoadProfile
    \/ MergeAgain

SpecLoader == InitLoader /\ [][NextLoader]_vars

----------------------------------------------------------------------------
(* Visual Style Classifier: _analyze_content_for_visual_style *)

RECURSIVE Contains(_, _)
\* sub in s
Contains(s, sub) ==
    IF Len(s) < Len(sub) THEN FALSE
    ELSE StartsWith(s, sub) \/ Contains(Tail(s), sub)

\* The if/elif chain on content_theme_lower (lines 278-336), in its order.
theme_rules ==
    <<
      [words |-> <<"business", "corporate", "professional", "enterprise", "b2b">>,
       style |-> "modern_corporate_b2b"],
      [words |-> <<"luxury", "premium", "elegant", "high-end">>,
       style |-> "luxury_editorial"],
      [words |-> <<"lifestyle", "daily", "personal", "authentic">>,
       style |-> "photography_led_lifestyle"],
      [words |-> <<"product", "commercial", "advertising", "marketing">>,
       style |-> "product_focused_commercial"],
      [words |-> <<"educational", "how-to", "tutorial", "explain">>,
       style |-> "isometric_explainer"],
      [words |-> <<"fun", "youthful", "playful", "creative">>,
       style |-> "playful_youthful_memphis"],
      [words |-> <<"data", "infographic", "statistics", "analytics">>,
       style |-> "infographic_data_driven"],
      [words |-> <<"quote", "inspiration", "motivation", "thought">>,
       style |-> "quote_card_typography"],
      [words |-> <<"meme", "viral", "social", "engagement">>,
       style |-> "meme_style_engagement"],
      [words |-> <<"tech", "ai", "future", "innovation", "digital">>,
       style |-> "futuristic_tech_dark"],
      [words |-> <<"retro", "vintage", "classic", "nostalgic">>,
       style |-> "retro_vintage_poster"],
      [words |-> <<"modern", "clean", "minimal", "simple">>,
       style |-> "minimal_clean_bold_typography"],
      [words |-> <<"artistic", "abstract", "creative", "experimental">>,
       style |-> "experimental_artistic_concept"],
      [words |-> <<"illustration", "cartoon", "characters", "fun">>,
       style |-> "flat_illustration_characters"],
      [words |-> <<"editorial", "magazine", "publication">>,
       style |-> "magazine_editorial_layout"],
      [words |-> <<"impact", "bold", "attention", "striking">>,
       style |-> "high_impact_color_blocking"],
      [words |-> <<"glass", "modern", "ui", "interface">>,
       style |-> "glassmorphism_neumorphism"],
      [words |-> <<"texture", "paper", "handmade", "organic">>,
       style |-> "textured_design_paper"],
      [words |-> <<"abstract", "shapes", "fluid", "gradient">>,
       style |-> "abstract_shapes_gradients"],
      [words |-> <<"festive", "celebration", "holiday", "seasonal">>,
       style |-> "festive_campaign_creative"]
    >>

\* The chain on industry_lower (lines 339-349).
industry_rules ==
    <<
      [words |-> <<"fashion", "beauty">>,
       style |-> "luxury_editorial"],
      [words |-> <<"tech", "software">>,
       style |-> "futuristic_tech_dark"],
      [words |-> <<"food", "restaurant">>,
       style |-> "photography_led_lifestyle"],
      [words |-> <<"finance", "consulting">>,
       style |-> "modern_corporate_b2b"]
    >>

\* The chain on brand_tone (lines 352-359).
brand_tone_rules ==
    <<
      [words |-> <<"luxurious", "elegant">>,
       style |-> "luxury_editorial"],
      [words |-> <<"professional", "corporate">>,
       style |-> "modern_corporate_b2b"],
      [words |-> <<"playful", "fun">>,
       style |-> "playful_youthful_memphis"]
    >>

\* any(word in text for word in words)
AnyWordIn(words, text) == \E i \in 1..Len(words) : Contains(text, words[i])

RECURSIVE last_matching_rule(_, _)
\* Mutant: the last rule that matches wins.
last_matching_rule(rules, text) ==
    IF rules = <<>> THEN None
    ELSE IF AnyWordIn(rules[Len(rules)].words, text)
    THEN Some(rules[Len(rules)].style)
    ELSE last_matching_rule(SubSeq(rules, 1, Len(rules) - 1), text)

RECURSIVE first_matching_rule(_, _)
\* An if/elif chain: the style of the first rule one of whose words occurs
\* in the text, None when the chain falls through.
first_matching_rule(rules, text) ==
    IF rules = <<>> THEN None
    ELSE IF AnyWordIn(Head(rules).words, text) THEN Some(Head(rules).style)
    ELSE first_matching_rule(Tail(rules), text)

\* What a call gives: the value it returns, or an exception.
Returned(value) == [raised |-> FALSE, value |-> value]
Raised == [raised |-> TRUE, value |-> NULL]

\* Python truthiness of an optional string.
Truthy(v) == v # NULL /\ v # ""

\* Lines 266-275 and 278-361: the inference from theme, industry and tone.
\* .lower() on a None theme, topic or brand_tone raises AttributeError;
\* str(None).lower() is 'none'.
infer_visual_style(content_theme, topic, business_context) ==
    IF content_theme = NULL \/ topic = NULL
       \/ Get(business_context, "brand_tone", "") = NULL
    THEN Raised
    ELSE LET content_theme_lower == Lower(content_theme)
             industry_lower == Lower(Str(Get(business_context, "industry", "general")))
             brand_tone == Lower(Get(business_context, "brand_tone", ""))
             by_theme == first_matching_rule(theme_rules, content_theme_lower)
             by_industry == first_matching_rule(industry_rules, industry_lower)
             by_tone == first_matching_rule(brand_tone_rules, brand_tone)
         IN  IF by_theme # None THEN Returned(by_theme[1])
             ELSE IF by_industry # None THEN Returned(by_industry[1])
             ELSE IF by_tone # None THEN Returned(by_tone[1])
             ELSE Returned("minimal_clean_bold_typography")

\* Mutant: the requested style is not looked at.
analyze_content_ignoring_request(content_theme, topic, business_context, requested_visual_style, image_enhancer_prompts) ==
    infer_visual_style(content_theme, topic, business_context)

\* _analyze_content_for_visual_style; image_enhancer_prompts stands for the
\* keys of the catalog loaded at startup.
analyze_content_for_visual_style(content_theme, topic, business_context, requested_visual_style, image_enhancer_prompts) ==
    IF Truthy(requested_visual_style)
       /\ requested_visual_style \in image_enhancer_prompts
    THEN Returned(requested_visual_style)
    ELSE infer_visual_style(content_theme, topic, business_context)

----------------------------------------------------------------------------
(* The classifier on its own: arguments are drawn, and the classifier is   *)
(* called with them, twice.                                                 *)

ClassifierThemes ==
    {"business", "Luxury Launch", "creative fun", "modern abstract", "email",
     "Seasonal", "weekly tips", NULL}

ClassifierTopics == {"Spring Sale", "AI Tools"}

\* Contexts _load_user_profile returns: of rows with these industries and
\* brand tones (null included), and of a select that raised.
ClassifierContexts ==
    {load_user_profile(
         [raised |-> FALSE,
          data |-> <<[CompleteProfile EXCEPT !.industry = i, !.brand_tone = t]>>])
     : i \in {"retail", "Fashion House", "Software", "Restaurant", "Consulting", NULL},
       t \in {"friendly", "Elegant", "Corporate", "Playful", NULL}}
    \cup {load_user_profile([raised |-> TRUE, data |-> <<>>])}

RequestedStyles == {NULL, "", "luxury_editorial", "custom_style", "unknown_style"}

\* The keys of image_enhancer_prompts: none when the file could not be
\* loaded (lines 56-64).
Catalogs ==
    {{}, {"minimal_clean_bold_typography", "luxury_editorial", "custom_style"}}

InitClassifier ==
    /\ calendar_entries = [e \in Entries |-> NewEntry(e, "static_post", "Spring Sale")]
    /\ created_content = [e \in Entries |-> 0]
    /\ InitProcesses
    /\ InitLoaderIdle
    /\ classifier_args \in
           {Some([content_theme |-> th, topic |-> tp, business_context |-> bc,
                  requested_visual_style |-> rq, image_enhancer_prompts |-> cat])
            : th \in ClassifierThemes, tp \in ClassifierTopics,
              bc \in ClassifierContexts, rq \in RequestedStyles,
              cat \in Catalogs}
    /\ classifier_results = <<>>
    /\ InitStagesIdle

\* A call of the classifier with the arguments.
Classify ==
    /\ classifier_args # None
    /\ Len(classifier_results) < 2
    /\ LET a == classifier_args[1]
       IN  classifier_results' =
               Append(classifier_results,
                      analyze_content_for_visual_style(
                          a.content_theme, a.topic, a.business_context,
                          a.requested_visual_style, a.image_enhancer_prompts))
    /\ UNCHANGED <<pipeline_vars, loader_vars, classifier_args, stage_vars>>

NextClassifier == Classify

SpecClassifier == InitClassifier /\ [][NextClassifier]_vars

----------------------------------------------------------------------------
(* The Content Synthesizer on its own: an entry and a business context are *)
(* drawn and generate_content is called with them; then the rest of        *)
(* process_single_entry (image stage, persistence, marking) is run on the  *)
(* same entry and context.                                                 *)

\* The content types the synthesizer knows (lines 459-546).
KnownTypes == {"static_post", "image_post", "carousel", "story", "reel", "video"}

\* The entries given to the synthesizer: of every known type and of a type
\* it does not know, with a topic of one word, of two words, or null.
SynthEntries ==
    {SelectedRow(NewEntry(1, ct, tp))
     : ct \in KnownTypes \cup {"email"}, tp \in {"Spring Sale", "tips", NULL}}

\* The contexts given to it, in a list: what _load_user_profile makes of a row (the
\* columns industry and target_audience hold a string, a list or an empty
\* list), of a row of nulls and of a select that raised; a context of three
\* keys only; and contexts that carry hashtags_that_work_well.
SynthContexts ==
    <<load_user_profile([raised |-> FALSE, data |-> <<CompleteProfile>>]),
      load_user_profile([raised |-> FALSE, data |-> <<BlankProfile>>]),
      load_user_profile(
          [raised |-> FALSE,
           data |-> <<[CompleteProfile EXCEPT !.industry = "real estate"]>>]),
      load_user_profile(
          [raised |-> FALSE,
           data |-> <<[CompleteProfile EXCEPT !.industry = <<"retail", "fashion">>,
                                              !.target_audience = <<"shoppers">>]>>]),
      load_user_profile(
          [raised |-> FALSE,
           data |-> <<[CompleteProfile EXCEPT !.industry = <<>>,
                                              !.target_audience = <<>>]>>]),
      load_user_profile([raised |-> TRUE, data |-> <<>>]),
      [business_name |-> "Acme", industry |-> <<"retail">>,
       target_audience |-> <<"shoppers">>],
      Update(CompleteProfile, [hashtags_that_work_well |-> "#sale,#spring"]),
      Update(CompleteProfile, [hashtags_that_work_well |-> "#sale, #spring ,"]),
      Update(CompleteProfile, [hashtags_that_work_well |-> ""]),
      Update(CompleteProfile, [hashtags_that_work_well |-> NULL])>>

InitSynth ==
    /\ calendar_entries = [e \in Entries |-> NewEntry(e, "static_post", "Spring Sale")]
    /\ created_content = [e \in Entries |-> 0]
    /\ InitProcesses
    /\ InitLoaderIdle
    /\ InitClassifierIdle
    /\ \E en \in SynthEntries, i \in 1..Len(SynthContexts), client \in BOOLEAN :
           synth_args = Some([entry |-> en, business_context |-> SynthContexts[i],
                              openai_client |-> client])
    /\ synth_results = <<>>
    /\ composer_args = None
    /\ composer_results = <<>>
    /\ caption_args = None
    /\ caption_results = <<>>
    /\ path_args = None
    /\ path_results = <<>>

\* generate_content is called with the arguments.
Synthesize ==
    /\ synth_args # None
    /\ synth_results = <<>>
    /\ synth_results' = <<generate_content(synth_args[1].entry,
                                           synth_args[1].business_context)>>
    /\ UNCHANGED <<pipeline_vars, loader_vars, classifier_vars, synth_args,
                   composer_vars, caption_vars,
                   path_vars>>

\* Lines 189-225 of process_single_entry for the entry and the context:
\* one of its executions, from generate_content to the update.
Persist ==
    /\ synth_args # None
    /\ Len(synth_results) = 1
    /\ \E x \in synthesize_and_persist(synth_args[1].entry,
                                        synth_args[1].business_context,
                                        "user_1", synth_args[1].openai_client) :
           synth_results' = Append(synth_results, x)
    /\ UNCHANGED <<pipeline_vars, loader_vars, classifier_vars, synth_args,
                   composer_vars, caption_vars,
                   path_vars>>

NextSynth ==
    \/ Synthesize
    \/ Persist

SpecSynth == InitSynth /\ [][NextSynth]_vars

----------------------------------------------------------------------------
(* Prompt Composer: _identify_content_theme_and_select_prompt and          *)
(* create_gemini_image_prompt                                              *)

\* _prepare_prompt_context_variables: the placeholders and their values, in
\* the order of the dict.  The clock is read as a fixed date and time.
prepare_prompt_context_variables(content_theme, topic, business_context) ==
    LET brand_assets_context ==
            "Primary Color: " \o Str(Get(business_context, "primary_color", "#007bff"))
            \o ", Secondary Color: "
            \o Str(Get(business_context, "secondary_color", "#6c757d"))
        industry == first_if_list(Get(business_context, "industry", <<"General">>),
                                  "General")
        target_audience ==
            first_if_list(Get(business_context, "target_audience",
                              <<"General audience">>), "General audience")
    IN  <<[placeholder |-> "current_date", value |-> "2025-03-01"],
          [placeholder |-> "current_time", value |-> "09:00:00"],
          [placeholder |-> "business_context.get('industry', 'General')",
           value |-> industry],
          [placeholder |-> "business_context.get('target_audience', 'General audience')",
           value |-> target_audience],
          [placeholder |-> "business_context.get('brand_tone', 'Approachable')",
           value |-> Get(business_context, "brand_tone", "Approachable")],
          [placeholder |-> "business_context.get('brand_voice', 'Professional and friendly')",
           value |-> Get(business_context, "brand_voice", "Professional and friendly")],
          [placeholder |-> "brand_assets_context", value |-> brand_assets_context],
          [placeholder |-> "location_context",
           value |-> "Business location context not available"],
          [placeholder |-> "generated_post.get('title', '')",
           value |-> Str(Get(business_context, "business_name", "Business"))
                     \o " - " \o Str(topic)],
          [placeholder |-> "generated_post.get('content', '')",
           value |-> "Content about " \o Str(content_theme) \o ": " \o Str(topic)
                     \o " for "
                     \o Str(Get(business_context, "business_name", "our business"))]>>

RECURSIVE fill_prompt_template(_, _)
\* _fill_prompt_template: each {placeholder} is replaced by str(value), one
\* placeholder after the other.
fill_prompt_template(template, context_vars) ==
    IF context_vars = <<>> THEN template
    ELSE fill_prompt_template(
             ReplaceAll(template, "{" \o Head(context_vars).placeholder \o "}",
                        Str(Head(context_vars).value)),
             Tail(context_vars))

\* _get_fallback_prompt
get_fallback_prompt(content_theme, business_context) ==
    "Create a professional image for "
    \o Str(Get(business_context, "business_name", "Business"))
    \o " about " \o Str(content_theme) \o ".\nUse primary brand color "
    \o Str(Get(business_context, "primary_color", "#007bff"))
    \o ".\nMake it suitable for social media with high quality and engaging design."

\* Mutant: a style without templates gives the empty template; the default
\* style is not looked up.
select_prompt_template_no_fallback(image_enhancer_prompts, selected_visual_style) ==
    LET prompt_data == Get(image_enhancer_prompts, selected_visual_style, <<>>)
    IN  IF "prompts" \in DOMAIN prompt_data /\ Len(prompt_data.prompts) > 0
        THEN prompt_data.prompts[1]
        ELSE ""

\* Lines 236-241: the template of the selected style, or of the default
\* style when the catalog has no entry for the selected one or the entry has
\* no key 'prompts'; "" when the entry taken has no template.
select_prompt_template(image_enhancer_prompts, selected_visual_style) ==
    LET found == Get(image_enhancer_prompts, selected_visual_style, <<>>)
        prompt_data ==
            IF DOMAIN found = {} \/ "prompts" \notin DOMAIN found
            THEN Get(image_enhancer_prompts, "minimal_clean_bold_typography", <<>>)
            ELSE found
    IN  IF "prompts" \in DOMAIN prompt_data /\ Len(prompt_data.prompts) > 0
        THEN prompt_data.prompts[1]
        ELSE ""

\* _identify_content_theme_and_select_prompt: the filled template, or the
\* fallback prompt when the classifier raised (lines 252-255).
identify_content_theme_and_select_prompt(content_theme, topic, business_context, visual_style, image_enhancer_prompts) ==
    LET selected_visual_style ==
            analyze_content_for_visual_style(content_theme, topic, business_context,
                                             visual_style,
                                             DOMAIN image_enhancer_prompts)
    IN  IF selected_visual_style.raised
        THEN get_fallback_prompt(content_theme, business_context)
        ELSE fill_prompt_template(
                 select_prompt_template(image_enhancer_prompts,
                                        selected_visual_style.value),
                 prepare_prompt_context_variables(content_theme, topic,
                                                  business_context))

\* _get_content_specific_prompt_addition
get_content_specific_prompt_addition(content_data) ==
    LET content_type == Get(content_data, "content_type", "static_post")
        topic == Get(content_data, "topic", "")
        content_theme == Get(content_data, "content_theme", "business")
    IN  IF content_type = "carousel"
        THEN "\n\nCONTENT SPECIFIC: This is part of a "
             \o ToString(Get(content_data, "slide_count", 4))
             \o "-slide carousel series about '" \o Str(topic) \o "' in '" \o Str(content_theme)
             \o "' theme. Design as a cohesive carousel image."
        ELSE IF content_type = "story"
        THEN "\n\nCONTENT SPECIFIC: Vertical story format optimized for mobile viewing about '"
             \o Str(topic) \o "' in '" \o Str(content_theme) \o "' theme."
        ELSE IF content_type \in {"static_post", "image_post"}
        THEN "\n\nCONTENT SPECIFIC: Single image post about '" \o Str(topic)
             \o "' in '" \o Str(content_theme)
             \o "' theme, perfect for Instagram feed."
        ELSE "\n\nCONTENT SPECIFIC: Content about '" \o Str(topic) \o "' in '"
             \o Str(content_theme) \o "' theme."

\* The string brand_color_addition of create_gemini_image_prompt (722-734).
brand_color_addition(content_data, platform, business_context) ==
    "\n\nCRITICAL BRAND COLOR REQUIREMENTS:\n- Primary Brand Color: "
    \o Str(Get(content_data, "primary_color", "#007bff"))
    \o " (USE THIS AS THE DOMINANT COLOR)\n- Secondary Brand Color: "
    \o Str(Get(content_data, "secondary_color", "#6c757d"))
    \o " (USE FOR ACCENTS AND SECONDARY ELEMENTS)\n- Business: "
    \o Str(Get(content_data, "business_name", "business"))
    \o "\n- Content Theme: " \o Str(Get(content_data, "content_theme", "business"))
    \o "\n- Platform: " \o Str(platform)
    \o "\n- Aspect Ratio: " \o Str(Get(content_data, "aspect_ratio", "1:1"))
    \o "\n\nENSURE THE GENERATED IMAGE INCORPORATES THESE BRAND COLORS PROMINENTLY."
    \o "\n\nVERIFICATION: These colors come from the user's profile in Supabase (user_id: "
    \o Str(Get(business_context, "id", "unknown")) \o ")."

Whitespace == {" ", "\n", "\t"}

RECURSIVE LStripWs(_)
LStripWs(s) == IF s # "" /\ Head(s) \in Whitespace THEN LStripWs(Tail(s)) ELSE s

RECURSIVE RStripWs(_)
RStripWs(s) ==
    IF s # "" /\ SubSeq(s, Len(s), Len(s)) \in Whitespace
    THEN RStripWs(SubSeq(s, 1, Len(s) - 1)) ELSE s

\* s.strip()
StripWs(s) == RStripWs(LStripWs(s))

\* create_gemini_image_prompt: the enhanced prompt when it is longer than 50
\* characters, a generic prompt otherwise.  The two additions are computed
\* (lines 719-734) and the function returns prompt.strip() (line 736).
create_gemini_image_prompt(content_data, visual_style, platform, business_context, enhanced_prompt) ==
    LET topic == Get(content_data, "topic", "")
        content_theme == Get(content_data, "content_theme", "business")
        prompt ==
            IF enhanced_prompt # "" /\ Len(enhanced_prompt) > 50
            THEN enhanced_prompt
            ELSE "Create a professional " \o Str(visual_style) \o " image for "
                 \o Str(platform) \o " about " \o Str(topic) \o " in "
                 \o Str(content_theme) \o " theme"
        content_specific_addition == get_content_specific_prompt_addition(content_data)
        brand_color == brand_color_addition(content_data, platform, business_context)
    IN  StripWs(prompt)

----------------------------------------------------------------------------
(* The Prompt Composer on its own: a catalog, an entry and the context of  *)
(* the image stage are drawn; the enhanced prompt is selected and filled,  *)
(* then the image prompt is composed from it (lines 601-604).              *)

DefaultTemplate ==
    "Minimal clean design with bold typography for a {business_context.get('industry', 'General')} brand. {brand_assets_context}. Post: {generated_post.get('title', '')}"

LuxuryTemplate ==
    "Luxury editorial photograph, {business_context.get('brand_tone', 'Approachable')} mood, for {business_context.get('target_audience', 'General audience')}. {generated_post.get('content', '')}"

\* The contents image_enhancer_prompts may have after __init__ (lines 56-64),
\* in a list: nothing (the file could not be loaded); the default style and
\* another style with templates and a style without the key 'prompts'; a
\* catalog without the default style; a style whose list of templates is
\* empty; a default style whose template is short.
PromptCatalogs ==
    <<<<>>,
      [minimal_clean_bold_typography |->
           [prompts |-> <<DefaultTemplate, "Second template">>],
       luxury_editorial |-> [prompts |-> <<LuxuryTemplate>>],
       custom_style |-> [description |-> "no templates yet"]],
      [luxury_editorial |-> [prompts |-> <<LuxuryTemplate>>]],
      [minimal_clean_bold_typography |-> [prompts |-> <<DefaultTemplate>>],
       luxury_editorial |-> [prompts |-> <<>>]],
      [minimal_clean_bold_typography |-> [prompts |-> <<"  Bold {location_context}\n">>]]>>

\* The image-bearing entries a prompt is composed for.
ComposerEntries ==
    {SelectedRow([NewEntry(1, ct, "Spring Sale") EXCEPT !.content_theme = th,
                                                       !.visual_style = vs])
     : ct \in {"static_post", "carousel", "story", "email"},
       th \in {"business", "Luxury Launch", NULL},
       vs \in {NULL, "luxury_editorial", "custom_style"}}

InitComposer ==
    /\ calendar_entries = [e \in Entries |-> NewEntry(e, "static_post", "Spring Sale")]
    /\ created_content = [e \in Entries |-> 0]
    /\ InitProcesses
    /\ InitLoaderIdle
    /\ InitClassifierIdle
    /\ synth_args = None
    /\ synth_results = <<>>
    /\ \E i \in 1..Len(PromptCatalogs), en \in ComposerEntries,
          response \in ProfileResponses :
           composer_args =
               Some([image_enhancer_prompts |-> PromptCatalogs[i],
                     entry |-> en,
                     content_data |->
                         generate_content(
                             en, load_user_profile(
                                     [raised |-> FALSE,
                                      data |-> <<CompleteProfile>>]))[1],
                     synthesis_context |->
                         load_user_profile([raised |-> FALSE,
                                            data |-> <<CompleteProfile>>]),
                     business_context |-> load_user_profile(response)])
    /\ composer_results = <<>>
    /\ caption_args = None
    /\ caption_results = <<>>
    /\ path_args = None
    /\ path_results = <<>>

\* Line 601: the enhanced prompt.
SelectPrompt ==
    /\ composer_args # None
    /\ composer_results = <<>>
    /\ LET a == composer_args[1]
       IN  composer_results' =
               <<identify_content_theme_and_select_prompt(
                     a.entry.content_theme, a.entry.topic, a.business_context,
                     a.entry.visual_style, a.image_enhancer_prompts)>>
    /\ UNCHANGED <<pipeline_vars, loader_vars, classifier_vars, synth_vars,
                   composer_args, caption_vars,
                   path_vars>>

\* Line 604: the prompt given to the image-generation call of line 611.
ComposePrompt ==
    /\ composer_args # None
    /\ Len(composer_results) = 1
    /\ LET a == composer_args[1]
       IN  composer_results' =
               Append(composer_results,
                      create_gemini_image_prompt(
                          a.content_data, a.entry.visual_style, a.entry.platform,
                          a.business_context, composer_results[1]))
    /\ UNCHANGED <<pipeline_vars, loader_vars, classifier_vars, synth_vars,
                   composer_args, caption_vars,
                   path_vars>>

NextComposer ==
    \/ SelectPrompt
    \/ ComposePrompt

SpecComposer == InitComposer /\ [][NextComposer]_vars

----------------------------------------------------------------------------
(* The caption of an image on its own: generate_caption_for_image is       *)
(* called once with a topic, a content record and an answer of the caption *)
(* model.                                                                   *)

\* The answers of the caption model, as the lines of the text.
CaptionTexts ==
    <<<<"CAPTION: Big spring sale!">>,
      <<"Here is your caption", "  CAPTION: Big spring sale!  ">>,
      <<"CAPTION: First", "CAPTION: Second">>,
      <<"Big spring sale!">>,
      <<"Our CAPTION: Big spring sale!">>,
      <<"CAPTION:">>,
      <<"CAPTION:   ", "CAPTION: Second">>,
      <<"">>,
      <<"CAPTION: Sale! CAPTION: now">>>>

\* The content records the caption is asked for.
CaptionRecords ==
    <<generate_content(NewEntry(1, "static_post", "Spring Sale"),
                       load_user_profile([raised |-> FALSE,
                                          data |-> <<CompleteProfile>>]))[1],
      generate_content(NewEntry(1, "carousel", "tips"),
                       load_user_profile([raised |-> TRUE, data |-> <<>>]))[1],
      [platform |-> "Instagram"]>>

InitCaption ==
    /\ calendar_entries = [e \in Entries |-> NewEntry(e, "static_post", "Spring Sale")]
    /\ created_content = [e \in Entries |-> 0]
    /\ InitProcesses
    /\ InitLoaderIdle
    /\ InitClassifierIdle
    /\ synth_args = None
    /\ synth_results = <<>>
    /\ composer_args = None
    /\ composer_results = <<>>
    /\ \E topic \in {"Spring Sale", "tips", NULL}, i \in 1..Len(CaptionRecords),
          client \in BOOLEAN, raised \in BOOLEAN, j \in 1..Len(CaptionTexts) :
           caption_args =
               Some([topic |-> topic, content_data |-> CaptionRecords[i],
                     openai_client |-> client,
                     response |-> [raised |-> raised,
                                   lines |-> IF raised THEN <<>>
                                             ELSE CaptionTexts[j]]])
    /\ caption_results = <<>>
    /\ path_args = None
    /\ path_results = <<>>

\* generate_caption_for_image is called with the arguments.
GenerateCaption ==
    /\ caption_args # None
    /\ caption_results = <<>>
    /\ caption_results' =
           <<caption_for_response(caption_args[1].topic,
                                  caption_args[1].content_data,
                                  caption_args[1].openai_client,
                                  caption_args[1].response)>>
    /\ UNCHANGED <<pipeline_vars, loader_vars, classifier_vars, synth_vars,
                   composer_vars, caption_args,
                   path_vars>>

NextCaption == GenerateCaption

SpecCaption == InitCaption /\ [][NextCaption]_vars

----------------------------------------------------------------------------
(* The storage path of an uploaded image on its own: the object name       *)
(* upload_image_to_supabase builds for a topic, an entry id and a uuid.    *)

RECURSIVE RemoveChars(_, _)
\* re.sub(r'[...]', '', s) for a character class: s without the characters
\* of the class.
RemoveChars(s, class) ==
    IF s = "" THEN ""
    ELSE (IF SubSeq(s, 1, 1) \in class THEN "" ELSE SubSeq(s, 1, 1))
         \o RemoveChars(Tail(s), class)

\* The character class of line 773.
InvalidFilenameChars == {"<", ">", ":", "\"", "/", "\\", "|", "?", "*", "'"}

\* s[:n]
Take(s, n) == IF Len(s) <= n THEN s ELSE SubSeq(s, 1, n)

\* Mutant: only the spaces of the topic are replaced.
topic_sanitized_spaces_only(topic) == ReplaceAll(topic, " ", "_")

\* Line 587: topic.replace(' ', '_').replace('/', '_')
topic_sanitized(topic) == ReplaceAll(ReplaceAll(topic, " ", "_"), "/", "_")

\* Lines 771-778: the object name for the topic as it is passed in.
upload_filename(topic, entry_id, uuid) ==
    LET sanitized_topic ==
            Take(ReplaceAll(RemoveChars(topic, InvalidFilenameChars), " ", "_"), 50)
        unique_id == Take(uuid, 8)
    IN  "cron_generated/" \o sanitized_topic \o "_" \o Take(entry_id, 8)
        \o "_" \o unique_id \o ".png"

\* Lines 586-587 and 623-628 (also 664-669): the object name of the upload
\* of an entry; None when the topic is null, since line 587 then raises
\* before any upload.
storage_path(entry_topic, entry_id, uuid) ==
    IF entry_topic = NULL THEN None
    ELSE Some(upload_filename(topic_sanitized(entry_topic), entry_id, uuid))

\* Topics an entry may carry.
PathTopics ==
    {"Spring Sale", "tips", "A/B testing", "What's new?",
     "Q&A: <live> \"now\"", "50% off | today*", "back\\slash", "",
     "  two  spaces ", "w/ team / w/o", "a/b",
     "Ten simple ideas to grow your retail store this spring season",
     "Why: ten simple ideas <to grow> your retail/store this spring?", NULL}

\* Ids of calendar entries, and what uuid.uuid4() may give.
PathEntryIds ==
    {"0a1b2c3d-1111-4111-8111-111111111111",
     "9f8e7d6c-2222-4222-8222-222222222222", "e1"}

PathUuids ==
    {"1a2b3c4d-0000-4000-8000-000000000000",
     "ffffffff-ffff-4fff-bfff-ffffffffffff", "00000000-0000-4000-8000-000000000000"}

InitPath ==
    /\ calendar_entries = [e \in Entries |-> NewEntry(e, "static_post", "Spring Sale")]
    /\ created_content = [e \in Entries |-> 0]
    /\ InitProcesses
    /\ InitLoaderIdle
    /\ InitClassifierIdle
    /\ synth_args = None
    /\ synth_results = <<>>
    /\ composer_args = None
    /\ composer_results = <<>>
    /\ caption_args = None
    /\ caption_results = <<>>
    /\ \E topic \in PathTopics, entry_id \in PathEntryIds, uuid \in PathUuids :
           path_args = Some([topic |-> topic, entry_id |-> entry_id, uuid |-> uuid])
    /\ path_results = <<>>

\* The image of the entry is uploaded.
BuildPath ==
    /\ path_args # None
    /\ path_results = <<>>
    /\ path_results' = <<storage_path(path_args[1].topic, path_args[1].entry_id,
                                      path_args[1].uuid)>>
    /\ UNCHANGED <<pipeline_vars, loader_vars, classifier_vars, synth_vars,
                   composer_vars, caption_vars, path_args>>

NextPath == BuildPath

SpecPath == InitPath /\ [][NextPath]_vars

----------------------------------------------------------------------------
(* Properties *)

\* The entry iterated last by p, its execution and its calls.
LastEntry(p) == last[p][1].entry
LastExec(p) == last[p][1].exec
LastCalls(p) == last[p][1].exec.calls

Marked(e) ==
    /\ calendar_entries[e].content = TRUE
    /\ calendar_entries[e].status = "content_generated"

Untouched(e) ==
    /\ calendar_entries[e].content = FALSE
    /\ calendar_entries[e].status = "pending"
    /\ calendar_entries[e].updated_at = "created"

BatchIds(p) == {batch[p][i].id : i \in 1..Len(batch[p])}

CallsOf(calls, ops) == {i \in 1..Len(calls) : calls[i].op \in ops}

ImageStageOps ==
    {"image_generate", "image_download", "storage_upload", "caption_request"}

ScriptOnly(e) == calendar_entries[e].content_type \in {"reel", "video"}

SynthesisOk(calls) == HasCall(calls, "generate_content", "ok")

\* The body texts generate_content can synthesize for a batch row, and for
\* the entry a process is iterating.
SynthesizedTextsOf ==
    [row \in BatchRows |->
        {generate_content(row, load_user_profile(r))[1].content
         : r \in {r \in ProfileResponses :
                     /\ load_user_profile(r) # <<>>
                     /\ generate_content(row, load_user_profile(r)) # None}}]

SynthesizedTexts(p) == SynthesizedTextsOf[batch[p][idx[p] + 1]]

\* The image stage of the execution produced an asset.
HasAsset(calls) == HasCall(calls, "storage_upload", "ok")

\* C1: an exception of one entry does not end the loop: a run that got a
\* batch is over only when every entry of the batch has been iterated, the
\* entries are iterated in batch order whatever happened to earlier ones,
\* and an entry whose own update succeeded is marked however many errors
\* the run has logged.
C1_OrchestratorIsolation ==
    \A p \in Procs :
        /\ (pc[p] = "done" /\ query[p] = "ok") => idx[p] = Len(batch[p])
        /\ errors[p] <= idx[p] + (IF last[p] = None THEN 0 ELSE 1)
        /\ last[p] # None =>
              /\ LastEntry(p) = batch[p][idx[p] + 1].id
              /\ HasCall(LastCalls(p), "calendar_entries_update", "ok")
                     => Marked(LastEntry(p))

C1_Witness ==
    \E p \in Procs :
        /\ errors[p] > 0
        /\ last[p] # None
        /\ ~LastExec(p).raised
        /\ HasCall(LastCalls(p), "calendar_entries_update", "ok")
        /\ Marked(LastEntry(p))

\* C2: in the processing of an entry the update of calendar_entries is the
\* last call; it comes after a successful generate_content, after the insert
\* of save_to_created_content and, for an image-bearing entry, after the
\* image stage (whose first call is its own load of the profile).
C2_UpdateIsLast ==
    \A p \in Procs :
        last[p] # None =>
            LET calls == LastCalls(p)
                n == Len(calls)
            IN  \A i \in 1..n :
                    calls[i].op = "calendar_entries_update" =>
                        /\ i = n
                        /\ \E g \in 1..(n - 1) :
                             /\ calls[g].op = "generate_content"
                             /\ calls[g].res = "ok"
                             /\ \E k \in (g + 1)..(n - 1) :
                                  /\ calls[k].op = "created_content_insert"
                                  /\ ~ScriptOnly(LastEntry(p)) =>
                                         \E m \in (g + 1)..(k - 1) :
                                             calls[m].op = "profiles_select"

C2_Witness ==
    \E p \in Procs :
        /\ last[p] # None
        /\ HasCall(LastCalls(p), "calendar_entries_update", "ok")
        /\ HasCall(LastCalls(p), "caption_request", "ok")
        /\ HasCall(LastCalls(p), "created_content_insert", "ok")

\* C3: after the processing of an entry, the entry is marked if and only if
\* a created_content row for it was inserted during that processing.
C3_PersistAndMarkAtomic ==
    \A p \in Procs :
        last[p] # None =>
            (Marked(LastEntry(p))
                <=> HasCall(LastCalls(p), "created_content_insert", "ok"))

\* C4: an image-bearing entry whose synthesis succeeded and whose image stage
\* gave no asset is still saved and marked: the insert is issued with a row
\* that has no image and the synthesized text as body, and the update is
\* issued; each takes effect unless the call itself fails.
C4_PartialSuccessCompletes ==
    \A p \in Procs :
        (/\ last[p] # None
         /\ ~ScriptOnly(LastEntry(p))
         /\ SynthesisOk(LastCalls(p))
         /\ ~HasAsset(LastCalls(p))) =>
            LET x == LastExec(p)
                e == LastEntry(p)
            IN  /\ CallsOf(x.calls, {"created_content_insert"}) # {}
                /\ CallsOf(x.calls, {"calendar_entries_update"}) # {}
                /\ CallsOf(x.calls, {"caption_request"}) = {}
                /\ HasCall(x.calls, "created_content_insert", "ok") =>
                       /\ x.row # None
                       /\ x.row[1].metadata.calendar_entry_id = e
                       /\ "images" \notin DOMAIN x.row[1]
                       /\ "media_url" \notin DOMAIN x.row[1]
                       /\ x.row[1].content \in SynthesizedTexts(p)
                       /\ created_content[e] > 0
                /\ HasCall(x.calls, "calendar_entries_update", "ok") => Marked(e)

C4_Witness ==
    \E p \in Procs :
        /\ last[p] # None
        /\ ~ScriptOnly(LastEntry(p))
        /\ HasCall(LastCalls(p), "image_generate", "raise")
        /\ ~HasAsset(LastCalls(p))
        /\ LastExec(p).row # None
        /\ Marked(LastEntry(p))

\* C5: the image-generation API is called at most twice per entry; the first
\* call carries the composed prompt; a second call is made exactly when the
\* first one raised, directly after it and with the basic prompt; when both
\* raise nothing is uploaded and the processing goes on to the insert.
C5_ImageRetryOnce ==
    \A p \in Procs :
        last[p] # None =>
            LET calls == LastCalls(p)
                gen == CallsOf(calls, {"image_generate"})
            IN  /\ Cardinality(gen) <= 2
                /\ \A i \in gen :
                     IF \E j \in gen : j < i
                     THEN /\ calls[i].arg = "basic_prompt"
                          /\ calls[i - 1].op = "image_generate"
                          /\ calls[i - 1].res = "raise"
                     ELSE /\ calls[i].arg = "composed_prompt"
                          /\ calls[i].res = "raise" =>
                                 /\ i + 1 \in gen
                                 /\ Cardinality(gen) = 2
                /\ (\A i \in gen : calls[i].res = "raise") /\ gen # {} =>
                       /\ CallsOf(calls, {"image_download", "storage_upload",
                                          "caption_request"}) = {}
                       /\ CallsOf(calls, {"created_content_insert"}) # {}
                       /\ LastExec(p).row # None =>
                              "images" \notin DOMAIN LastExec(p).row[1]

C5_Witness ==
    \E p \in Procs :
        /\ last[p] # None
        /\ HasCall(LastCalls(p), "image_generate", "raise")
        /\ HasCall(LastCalls(p), "image_generate", "ok")
        /\ HasAsset(LastCalls(p))

\* C6: when the calendar lookup finds no row or the profile load gives the
\* empty mapping, process_single_entry returns without raising, makes no
\* further call, writes nothing, and the entry stays as it was: the next
\* batch query selects it.
C6_SkipLeavesEntryUntouched ==
    \A p \in Procs :
        (/\ last[p] # None
         /\ \/ HasCall(LastCalls(p), "calendars_select", "none")
            \/ (/\ Len(LastCalls(p)) >= 2
                /\ LastCalls(p)[2].op = "profiles_select"
                /\ LastCalls(p)[2].res = "none")) =>
            /\ ~LastExec(p).raised
            /\ CallsOf(LastCalls(p), ImageStageOps \cup WriteOps
                                     \cup {"generate_content"}) = {}
            /\ LastExec(p).row = None
            /\ Untouched(LastEntry(p))
            /\ \E i \in 1..Len(pending_entries(calendar_entries)) :
                   pending_entries(calendar_entries)[i].id = LastEntry(p)

C6_Witness ==
    \E p \in Procs :
        /\ last[p] # None
        /\ Len(LastCalls(p)) = 2
        /\ LastCalls(p)[2].op = "profiles_select"
        /\ LastCalls(p)[2].res = "none"
        /\ Untouched(LastEntry(p))

\* C7: an entry whose synthesis returned no record, or whose processing was
\* left by an exception, is unmarked with its status unchanged and is
\* selected by the next batch query; and up to the end of the run nothing
\* else marks it: a row of calendar_entries changes only in the processing
\* of that very entry, by an execution that synthesized a record and was
\* not left by an exception.
C7_FailedEntryLeftUnmarked ==
    /\ [](\A p \in Procs :
            (/\ last[p] # None
             /\ \/ LastExec(p).raised
                \/ HasCall(LastCalls(p), "generate_content", "none")) =>
                /\ calendar_entries[LastEntry(p)].content = FALSE
                /\ calendar_entries[LastEntry(p)].status = "pending"
                /\ \E i \in 1..Len(pending_entries(calendar_entries)) :
                       pending_entries(calendar_entries)[i].id = LastEntry(p))
    /\ [][\A e \in Entries :
            calendar_entries'[e] # calendar_entries[e] =>
                \E p \in Procs :
                    /\ last[p] = None
                    /\ last'[p] # None
                    /\ last'[p][1].entry = e
                    /\ ~last'[p][1].exec.raised
                    /\ SynthesisOk(last'[p][1].exec.calls)]_vars

C7_Witness ==
    \E p \in Procs :
        /\ last[p] # None
        /\ LastExec(p).raised
        /\ HasCall(LastCalls(p), "created_content_insert", "ok")
        /\ idx[p] > 0
        /\ \E e \in BatchIds(p) :
             e # LastEntry(p) /\ ~calendar_entries[e].content

\* C8: once an entry has content = true its row never changes again, no
\* later batch query selects it and no run processes it; so across runs
\* that do not overlap the entry is flipped at most once.
C8_ExactlyOnceFlip ==
    [][\A e \in Entries :
          calendar_entries[e].content = TRUE =>
              /\ calendar_entries'[e] = calendar_entries[e]
              /\ \A p \in Procs :
                   /\ batch'[p] # batch[p] =>
                          \A i \in 1..Len(batch'[p]) : batch'[p][i].id # e
                   /\ (last'[p] # None /\ last'[p] # last[p]) =>
                          last'[p][1].entry # e]_vars

C8_Witness ==
    \E p \in Procs :
        /\ pc[p] = "running"
        /\ batch[p] # <<>>
        /\ \E e \in Entries : Marked(e) /\ e \notin BatchIds(p)

\* C9: when the batch query raises, or returns no rows, the run is over at
\* once: no entry is iterated and no execution of process_single_entry
\* exists.
C9_BatchFatalEndsRun ==
    \A p \in Procs :
        (query[p] = "raise" \/ (query[p] = "ok" /\ batch[p] = <<>>)) =>
            /\ pc[p] = "done"
            /\ batch[p] = <<>>
            /\ idx[p] = 0
            /\ last[p] = None
            /\ errors[p] = 0

C9_Witness ==
    \E p \in Procs :
        /\ query[p] = "raise"
        /\ pc[p] = "done"
        /\ \E e \in Entries : calendar_entries[e].content = FALSE

\* C10: for a reel or video entry whose synthesis succeeded the image stage
\* is not entered: no profile reload, image-generation call, download,
\* upload or caption request is made; the row has no images and no
\* media_url; the insert and the update are still issued.
C10_ScriptOnlySkipsImageStage ==
    \A p \in Procs :
        (/\ last[p] # None
         /\ ScriptOnly(LastEntry(p))
         /\ SynthesisOk(LastCalls(p))) =>
            LET x == LastExec(p)
                e == LastEntry(p)
            IN  /\ CallsOf(x.calls, ImageStageOps) = {}
                /\ Cardinality(CallsOf(x.calls, {"profiles_select"})) = 1
                /\ CallsOf(x.calls, {"created_content_insert"}) # {}
                /\ CallsOf(x.calls, {"calendar_entries_update"}) # {}
                /\ HasCall(x.calls, "created_content_insert", "ok") =>
                       /\ x.row # None
                       /\ "images" \notin DOMAIN x.row[1]
                       /\ "media_url" \notin DOMAIN x.row[1]
                       /\ created_content[e] > 0
                /\ HasCall(x.calls, "calendar_entries_update", "ok") => Marked(e)

C10_Witness ==
    \E p \in Procs :
        /\ last[p] # None
        /\ calendar_entries[LastEntry(p)].content_type = "video"
        /\ openai_client[p]
        /\ LastExec(p).row # None
        /\ "long_video_script" \in DOMAIN LastExec(p).row[1]
        /\ Marked(LastEntry(p))

\* The download or the upload of the execution failed.
UploadFailed(calls) ==
    \/ HasCall(calls, "image_download", "raise")
    \/ HasCall(calls, "storage_upload", "raise")
    \/ HasCall(calls, "storage_upload", "error")

\* C11: when an image was generated and its download or upload fails, the
\* image stage ends there without an asset and without raising: the failed
\* call is followed by no image-generation call and no caption request but
\* directly by the insert, whose row has no image, and then by the update;
\* each of the two takes effect unless the call itself fails.
C11_UploadFailureEndsImageStage ==
    \A p \in Procs :
        (last[p] # None /\ UploadFailed(LastCalls(p))) =>
            LET x == LastExec(p)
                n == Len(x.calls)
            IN  /\ HasCall(x.calls, "image_generate", "ok")
                /\ CallsOf(x.calls, {"caption_request"}) = {}
                /\ ~HasAsset(x.calls)
                /\ n >= 3
                /\ x.calls[n].op = "calendar_entries_update"
                /\ x.calls[n - 1].op = "created_content_insert"
                /\ x.calls[n - 2].op \in {"image_download", "storage_upload"}
                /\ x.calls[n - 2].res # "ok"
                /\ x.calls[n - 1].res = "ok" =>
                       /\ x.row # None
                       /\ "images" \notin DOMAIN x.row[1]
                       /\ "media_url" \notin DOMAIN x.row[1]
                       /\ created_content[LastEntry(p)] > 0
                /\ x.calls[n].res = "ok" =>
                       /\ ~x.raised
                       /\ Marked(LastEntry(p))

C11_Witness ==
    \E p \in Procs :
        /\ last[p] # None
        /\ HasCall(LastCalls(p), "image_generate", "raise")
        /\ HasCall(LastCalls(p), "image_generate", "ok")
        /\ HasCall(LastCalls(p), "storage_upload", "error")
        /\ LastExec(p).row # None
        /\ Marked(LastEntry(p))

\* C12: in the processing of an entry there is at most one upload to the
\* bucket, one caption request, one insert into created_content and one
\* update of calendar_entries, whichever calls fail; and a batch holds an
\* entry at most once, so this is so for each entry within a run.
C12_NoOtherStageRetries ==
    \A p \in Procs :
        /\ \A i, j \in 1..Len(batch[p]) :
               batch[p][i].id = batch[p][j].id => i = j
        /\ last[p] # None =>
              \A op \in {"storage_upload", "caption_request",
                          "created_content_insert", "calendar_entries_update"} :
                  Cardinality(CallsOf(LastCalls(p), {op})) <= 1

C12_Witness ==
    \E p \in Procs :
        /\ last[p] # None
        /\ HasCall(LastCalls(p), "image_generate", "raise")
        /\ HasCall(LastCalls(p), "storage_upload", "ok")
        /\ HasCall(LastCalls(p), "caption_request", "raise")
        /\ HasCall(LastCalls(p), "created_content_insert", "raise")
        /\ HasCall(LastCalls(p), "calendar_entries_update", "ok")

\* C13: within a run at most one entry is begun and not finished; it is the
\* entry that follows, in the order of the batch, the entries finished so
\* far, and no later entry has made a call.  So every call of an entry is
\* made before any call of the entry after it.
C13_EntriesDoNotInterleave ==
    \A p \in Procs :
        /\ Cardinality(running[p]) <= 1
        /\ \A r \in running[p] :
             /\ r.index = idx[p] + 1
             /\ last[p] = None
        /\ last[p] # None =>
             /\ idx[p] < Len(batch[p])
             /\ LastEntry(p) = batch[p][idx[p] + 1].id
        /\ pc[p] # "running" => running[p] = {}

C13_Witness ==
    \E p \in Procs :
        /\ idx[p] = 1
        /\ Marked(batch[p][1].id)
        /\ created_content[batch[p][1].id] > 0
        /\ \E r \in running[p] :
             /\ r.index = 2
             /\ Len(r.done) >= 4
             /\ r.done[Len(r.done)].op = "storage_upload"
        /\ created_content[batch[p][2].id] = 0

\* C14: nothing claims an entry.  A batch read returns every entry that is
\* content = false, whichever running process holds it in its batch, and
\* writes nothing; a row of calendar_entries changes only through the
\* update at the end of a processing of that entry.  So two overlapping
\* runs can both hold an entry and both process it.
C14_NoClaimOnRead ==
    [][/\ \A p \in Procs :
            batch'[p] # batch[p] =>
                /\ calendar_entries' = calendar_entries
                /\ created_content' = created_content
                /\ batch'[p] \in {<<>>, pending_entries(calendar_entries)}
       /\ \A e \in Entries :
            calendar_entries'[e] # calendar_entries[e] =>
                \E p \in Procs :
                    /\ e \in processed'[p] \ processed[p]
                    /\ calendar_entries'[e].content = TRUE]_vars

\* Both processes have processed the entry in overlapping runs: it has two
\* rows in created_content and each process has updated it.
C14_Witness ==
    \E e \in Entries :
        /\ \A p \in Procs :
             /\ pc[p] # "idle"
             /\ e \in processed[p]
             /\ errors[p] = 0
        /\ created_content[e] = 2
        /\ Marked(e)

\* The outcome of the profile load of process_single_entry, "" if the
\* execution did not come to it.
FirstProfileLoad(calls) ==
    IF Len(calls) >= 2 /\ calls[2].op = "profiles_select" THEN calls[2].res ELSE ""

\* What _load_user_profile returns for each outcome of its select.
ProfileLoaderOutcomes ==
    \A response \in ProfileResponses :
         CASE ProfileResult(response) = "row" ->
                  /\ load_user_profile(response) # <<>>
                  /\ DOMAIN response.data[1] \subseteq
                         DOMAIN load_user_profile(response)
           [] ProfileResult(response) = "none" ->
                  load_user_profile(response) = <<>>
           [] ProfileResult(response) = "raise" ->
                  load_user_profile(response) = minimal_defaults

\* The hashtags generate_content gives an entry under the minimal defaults.
DefaultHashtagsOf ==
    [row \in BatchRows |->
        IF generate_content(row, minimal_defaults) = None THEN <<>>
        ELSE generate_content(row, minimal_defaults)[1].hashtags]

\* C15: the three outcomes of the profile load.  A row gives a non-empty
\* context and the processing goes on to generate_content.  No row gives
\* the empty mapping and the entry is skipped.  A select that raises gives
\* the minimal defaults and raises nothing: the processing goes on, an
\* entry with a topic gets generic content synthesized from the defaults,
\* the insert and the update are issued, and each takes effect unless the
\* call itself fails.
C15_ProfileLoaderThreeWay ==
    /\ ProfileLoaderOutcomes
    /\ \A p \in Procs :
         last[p] # None =>
            LET x == LastExec(p)
                n == Len(x.calls)
                e == LastEntry(p)
                row == batch[p][idx[p] + 1]
            IN  CASE FirstProfileLoad(x.calls) = "row" ->
                         /\ n >= 3
                         /\ x.calls[3].op = "generate_content"
                  [] FirstProfileLoad(x.calls) = "none" ->
                         /\ n = 2
                         /\ ~x.raised
                         /\ Untouched(e)
                  [] FirstProfileLoad(x.calls) = "raise" ->
                         /\ n >= 3
                         /\ x.calls[3].op = "generate_content"
                         /\ row.topic # NULL =>
                              /\ x.calls[3].res = "ok"
                              /\ x.calls[n].op = "calendar_entries_update"
                              /\ x.calls[n - 1].op = "created_content_insert"
                              /\ x.calls[n - 1].res = "ok" =>
                                     /\ x.row # None
                                     /\ x.row[1].hashtags = DefaultHashtagsOf[row]
                                     /\ "#general" \in Range(x.row[1].hashtags)
                              /\ x.calls[n].res = "ok" =>
                                     ~x.raised /\ Marked(e)
                  [] OTHER -> TRUE

C15_Witness ==
    \E p \in Procs :
        /\ last[p] # None
        /\ FirstProfileLoad(LastCalls(p)) = "raise"
        /\ LastExec(p).row # None
        /\ Marked(LastEntry(p))
        /\ calendar_entries[LastEntry(p)].content_type = "static_post"

\* The constant a column is given when the row does not have it.
ColumnDefault(k) ==
    profile_defaults(<<>>)[IF k = "unique_value_proposition" THEN "unique_value" ELSE k]

\* The row a context was loaded from.
LoadedRow == loader_response[1].data[1]

\* C16: in the context made of a profile row each defaulted field has the
\* row's value when the row has one that is not null, and the constant
\* default otherwise; no such field of the context is null.
C16_PerFieldDefaulting ==
    (/\ loader_contexts # <<>>
     /\ ProfileResult(loader_response[1]) = "row") =>
        \A k \in defaulted_columns :
            /\ k \in DOMAIN loader_contexts[1]
            /\ loader_contexts[1][k] # NULL
            /\ loader_contexts[1][k] =
                   IF k \in DOMAIN LoadedRow /\ LoadedRow[k] # NULL
                   THEN LoadedRow[k]
                   ELSE ColumnDefault(k)

\* Every defaulted column of the row is set.
CompleteRow(row) ==
    \A k \in defaulted_columns : k \in DOMAIN row /\ row[k] # NULL

\* C17: the context made of a row in which every defaulted field is set is
\* the row itself, same keys and same values; and merging the defaults a
\* second time changes nothing.
C17_DefaultingIdempotent ==
    (/\ loader_contexts # <<>>
     /\ ProfileResult(loader_response[1]) = "row") =>
        /\ CompleteRow(LoadedRow) => loader_contexts[1] = LoadedRow
        /\ Len(loader_contexts) = 2 => loader_contexts[2] = loader_contexts[1]

\* The arguments of the classifier calls looked at.
Args == classifier_args[1]

\* The requested style is a key of the catalog.
OverrideApplies ==
    /\ Truthy(Args.requested_visual_style)
    /\ Args.requested_visual_style \in Args.image_enhancer_prompts

Matching(rules, text) ==
    {i \in 1..Len(rules) : AnyWordIn(rules[i].words, text)}

\* The style of the matching rule that comes first in the chain.
EarliestStyle(rules, text) ==
    rules[CHOOSE i \in Matching(rules, text) :
              \A j \in Matching(rules, text) : i <= j].style

\* C19: when no style of the catalog is requested and the classifier
\* returns, it returns the style of the earliest keyword group a word of
\* which occurs in the lower-cased theme; if there is none, that of the
\* earliest industry rule matching the lower-cased industry; if there is
\* none, that of the earliest rule matching the lower-cased brand tone;
\* and minimal_clean_bold_typography if nothing matches.
C19_ClassifierPrecedence ==
    (/\ classifier_results # <<>>
     /\ ~OverrideApplies
     /\ ~classifier_results[1].raised) =>
        LET theme == Lower(Args.content_theme)
            industry == Lower(Str(Get(Args.business_context, "industry", "general")))
            tone == Lower(Get(Args.business_context, "brand_tone", ""))
            style == classifier_results[1].value
        IN  IF Matching(theme_rules, theme) # {}
            THEN style = EarliestStyle(theme_rules, theme)
            ELSE IF Matching(industry_rules, industry) # {}
            THEN style = EarliestStyle(industry_rules, industry)
            ELSE IF Matching(brand_tone_rules, tone) # {}
            THEN style = EarliestStyle(brand_tone_rules, tone)
            ELSE style = "minimal_clean_bold_typography"

\* A theme with words of the groups 12, 13, 17 and 19 gets the style of
\* group 12.
C19_Witness ==
    /\ classifier_results # <<>>
    /\ ~OverrideApplies
    /\ Args.content_theme = "modern abstract"
    /\ Cardinality(Matching(theme_rules, Lower(Args.content_theme))) = 4
    /\ classifier_results[1] = Returned("minimal_clean_bold_typography")

\* The style names the inference can return.
FixedStyles == {theme_rules[i].style : i \in 1..Len(theme_rules)}

\* C20: for every context of the Profile Loader and every theme the
\* classifier returns, without raising, one style: the requested style of
\* the catalog or one of the 20 fixed names.
C20_ClassifierTotal ==
    classifier_results # <<>> =>
        /\ ~classifier_results[1].raised
        /\ \/ classifier_results[1].value \in FixedStyles
           \/ /\ OverrideApplies
              /\ classifier_results[1].value = Args.requested_visual_style
        /\ Cardinality(FixedStyles) = 20

----------------------------------------------------------------------------
(* Properties of the Content Synthesizer *)

\* generate_content was called and returned a record.
Synthesized == synth_results # <<>> /\ synth_results[1] # None

SynthEntry == synth_args[1].entry
SynthContext == synth_args[1].business_context
SynthRecord == synth_results[1][1]

\* C21: the record synthesized for an entry of a known content type has the
\* fields of that type: generate_image is true for static_post, image_post,
\* carousel and story; a carousel has slide_count 4 and four slide
\* descriptors numbered 1 to 4; reel and video have generate_image false,
\* generate_script true and a script of four sections.
C21_TypeSpecificFields ==
    Synthesized =>
        LET ct == SynthEntry.content_type
            rec == SynthRecord
        IN  /\ ct \in {"static_post", "image_post", "carousel", "story"} =>
                 /\ "generate_image" \in DOMAIN rec
                 /\ rec.generate_image = TRUE
                 /\ DOMAIN rec \cap {"generate_script", "reel_script",
                                     "video_script"} = {}
            /\ ct = "carousel" =>
                 /\ {"slide_count", "carousel_images"} \subseteq DOMAIN rec
                 /\ rec.slide_count = 4
                 /\ Len(rec.carousel_images) = 4
                 /\ \A i \in 1..4 : rec.carousel_images[i].slide = i
            /\ ct \in {"reel", "video"} =>
                 /\ {"generate_image", "generate_script"} \subseteq DOMAIN rec
                 /\ rec.generate_image = FALSE
                 /\ rec.generate_script = TRUE
            /\ ct = "reel" =>
                 /\ "reel_script" \in DOMAIN rec
                 /\ DOMAIN rec.reel_script = {"hook", "value", "story", "cta"}
                 /\ \A k \in DOMAIN rec.reel_script : rec.reel_script[k] # ""
            /\ ct = "video" =>
                 /\ "video_script" \in DOMAIN rec
                 /\ DOMAIN rec.video_script =
                        {"introduction", "main_content", "expert_insights",
                         "conclusion"}
                 /\ \A k \in DOMAIN rec.video_script : rec.video_script[k] # ""
            /\ ct \in KnownTypes => rec.content_type = ct

C21_Witness ==
    /\ Synthesized
    /\ SynthEntry.content_type = "carousel"
    /\ SynthRecord.slide_count = 4
    /\ SynthRecord.hashtags # <<>>

\* The rest of process_single_entry was run on the entry and the context.
Persisted == Len(synth_results) = 2

SynthExec == synth_results[2]

\* The entry with a known image-bearing type instead of its own.
AsStaticPost(entry) == [entry EXCEPT !.content_type = "static_post"]

\* C22: an entry of a content type the synthesizer does not know is not an
\* error.  generate_content returns a record for it whenever it returns one
\* for the same entry as a static_post, and the record is the generic
\* single-image one (image_type single_image, aspect_ratio 1:1,
\* generate_image true, no slides and no script).  The rest of the
\* processing is that of an image-bearing entry: the image stage is entered
\* (it loads the profile unless the topic is null), the insert and the
\* update are issued, and the calls, the exception and
\* the marking are those of an execution the same entry has as a
\* static_post; the row inserted keeps the entry's own content type.
C22_UnknownTypeIsGeneric ==
    (synth_results # <<>> /\ SynthEntry.content_type \notin KnownTypes) =>
        /\ (synth_results[1] = None)
               <=> (generate_content(AsStaticPost(SynthEntry), SynthContext) = None)
        /\ Synthesized =>
             LET rec == SynthRecord
             IN  /\ {"image_type", "aspect_ratio", "generate_image", "title"}
                        \subseteq DOMAIN rec
                 /\ rec.image_type = "single_image"
                 /\ rec.aspect_ratio = "1:1"
                 /\ rec.generate_image = TRUE
                 /\ rec.title = Str(rec.business_name) \o " - " \o Str(rec.topic)
                 /\ rec.content_type = SynthEntry.content_type
                 /\ DOMAIN rec \cap {"carousel_images", "slide_count", "reel_script",
                                     "video_script", "generate_script"} = {}
        /\ (Synthesized /\ Persisted) =>
             LET x == SynthExec
                 n == Len(x.calls)
             IN  /\ n >= 3
                 /\ x.calls[1].op = "generate_content"
                 /\ SynthEntry.topic # NULL => x.calls[2].op = "profiles_select"
                 /\ x.calls[n - 1].op = "created_content_insert"
                 /\ x.calls[n].op = "calendar_entries_update"
                 /\ x.marked <=> x.calls[n].res = "ok"
                 /\ x.row # None <=> x.calls[n - 1].res = "ok"
                 /\ x.row # None =>
                        /\ x.row[1].content_type = Lower(SynthEntry.content_type)
                        /\ x.row[1].title = SynthRecord.title
                 /\ \E y \in synthesize_and_persist(
                                 AsStaticPost(SynthEntry), SynthContext, "user_1",
                                 synth_args[1].openai_client) :
                        /\ y.calls = x.calls
                        /\ y.raised = x.raised
                        /\ y.marked = x.marked
                        /\ (y.row = None) <=> (x.row = None)

C22_Witness ==
    /\ Synthesized
    /\ Persisted
    /\ SynthEntry.content_type = "email"
    /\ HasAsset(SynthExec.calls)
    /\ SynthExec.row # None
    /\ "images" \in DOMAIN SynthExec.row[1]
    /\ SynthExec.marked

\* The tags the claim gives each content type after the base tags.
TypeTags(content_type) ==
    CASE content_type = "carousel" -> <<"#Carousel", "#Swipe">>
      [] content_type = "story" -> <<"#Stories", "#BehindTheScenes">>
      [] content_type \in {"reel", "video"} -> <<"#Reels", "#ShortVideo">>
      [] OTHER -> <<>>

\* C23: the hashtags of the record.  When the context supplies
\* hashtags_that_work_well they are that string split on commas: joined by
\* commas they give the string back and none of them holds a comma.
\* Otherwise they are #Business, #Success, a tag made of the industry and a
\* tag made of the topic, followed by the tags of the content type:
\* #Carousel #Swipe for carousel, #Stories #BehindTheScenes for story,
\* #Reels #ShortVideo for reel and video, none for the other types.
C23_HashtagGeneration ==
    Synthesized =>
        LET rec == SynthRecord
            supplied == Get(SynthContext, "hashtags_that_work_well", NULL)
        IN  IF Truthy(supplied)
            THEN /\ Join(rec.hashtags, ",") = supplied
                 /\ \A i \in 1..Len(rec.hashtags) : ~Contains(rec.hashtags[i], ",")
            ELSE /\ Len(rec.hashtags) >= 4
                 /\ SubSeq(rec.hashtags, 1, 2) = <<"#Business", "#Success">>
                 /\ rec.hashtags[3] = "#" \o Replace(rec.industry, " ", "")
                 /\ Lower(rec.hashtags[4]) = "#" \o Lower(Replace(rec.topic, " ", ""))
                 /\ SubSeq(rec.hashtags, 5, Len(rec.hashtags))
                        = TypeTags(SynthEntry.content_type)

\* The entry and the context of the scenario.
SpringSaleScenario ==
    /\ synth_args # None
    /\ SynthEntry.content_type = "static_post"
    /\ SynthEntry.topic = "Spring Sale"
    /\ SynthEntry.platform = "Instagram"
    /\ DOMAIN SynthContext = {"business_name", "industry", "target_audience"}
    /\ SynthContext.business_name = "Acme"
    /\ IsList(SynthContext.industry)
    /\ SynthContext.industry = <<"retail">>
    /\ IsList(SynthContext.target_audience)
    /\ SynthContext.target_audience = <<"shoppers">>

\* C24: for the entry {static_post, "Spring Sale", Instagram} and the
\* context {business_name Acme, industry [retail], target_audience
\* [shoppers]} generate_content returns a record whose title is
\* "Acme: Spring Sale", with generate_image true, aspect_ratio "1:1" and
\* hashtags that include #Business, #Retail and #SpringSale.
C24_SpringSaleScenario ==
    (SpringSaleScenario /\ synth_results # <<>>) =>
        /\ Synthesized
        /\ SynthRecord.title = "Acme: Spring Sale"
        /\ SynthRecord.generate_image = TRUE
        /\ SynthRecord.aspect_ratio = "1:1"
        /\ {"#Business", "#Retail", "#SpringSale"} \subseteq Range(SynthRecord.hashtags)

----------------------------------------------------------------------------
(* Properties of the Prompt Composer *)

\* sub in s
Includes(s, sub) ==
    \E i \in 1..(Len(s) - Len(sub) + 1) : SubSeq(s, i, i + Len(sub) - 1) = sub

EndsWith(s, suffix) ==
    Len(s) >= Len(suffix) /\ SubSeq(s, Len(s) - Len(suffix) + 1, Len(s)) = suffix

\* The enhanced prompt was selected; the image prompt was composed.
Selected == Len(composer_results) >= 1
Composed == Len(composer_results) = 2

EnhancedPrompt == composer_results[1]
ImagePrompt == composer_results[2]

\* C25: the prompt composed for the primary image-generation attempt holds,
\* after the base prompt, the brand-color block (primary color, secondary
\* color and business name of the record) and the block of the record's
\* content type, and ends with one of the two, whichever branch gave the
\* base prompt.
C25_DirectiveBlocksAppended ==
    Composed =>
        LET a == composer_args[1]
            brand == StripWs(brand_color_addition(a.content_data, a.entry.platform,
                                                  a.business_context))
            specific == StripWs(get_content_specific_prompt_addition(a.content_data))
        IN  /\ Includes(ImagePrompt, "CRITICAL BRAND COLOR REQUIREMENTS")
            /\ Includes(ImagePrompt,
                        "Primary Brand Color: " \o Str(a.content_data.primary_color))
            /\ Includes(ImagePrompt,
                        "Secondary Brand Color: " \o Str(a.content_data.secondary_color))
            /\ Includes(ImagePrompt, "Business: " \o Str(a.content_data.business_name))
            /\ Includes(ImagePrompt, specific)
            /\ EndsWith(ImagePrompt, brand) \/ EndsWith(ImagePrompt, specific)

\* The catalog could not be loaded at startup.
EmptyCatalog == composer_args # None /\ DOMAIN composer_args[1].image_enhancer_prompts = {}

\* C26: with an empty catalog the prompt composed for an image-bearing entry
\* is the minimal synthesized prompt: it names the business and the primary
\* brand color of the context and gives the generic instruction.
C26_EmptyCatalogMinimalPrompt ==
    (EmptyCatalog /\ Composed) =>
        LET a == composer_args[1]
        IN  /\ ImagePrompt = get_fallback_prompt(a.entry.content_theme,
                                                 a.business_context)
            /\ Includes(ImagePrompt,
                        Str(Get(a.business_context, "business_name", "Business")))
            /\ Includes(ImagePrompt,
                        Str(Get(a.business_context, "primary_color", "#007bff")))
            /\ Includes(ImagePrompt, "Make it suitable for social media")

\* What the classifier gives for the arguments of the composition.
SelectedStyle ==
    LET a == composer_args[1]
    IN  analyze_content_for_visual_style(
            a.entry.content_theme, a.entry.topic, a.business_context,
            a.entry.visual_style, DOMAIN a.image_enhancer_prompts)

\* The catalog has at least one template for the style.
HasTemplates(catalog, style) ==
    /\ style \in DOMAIN catalog
    /\ "prompts" \in DOMAIN catalog[style]
    /\ Len(catalog[style].prompts) > 0

\* The catalog has no entry for the style, or an entry without a list of
\* templates.
HasNoPromptsList(catalog, style) ==
    \/ style \notin DOMAIN catalog
    \/ "prompts" \notin DOMAIN catalog[style]

\* C27: when the classifier has selected a style, the enhanced prompt is the
\* first template of that style if the style has templates, and the first
\* template of minimal_clean_bold_typography if the selected style is not in
\* the catalog or has no list of templates; in both cases the template is
\* filled with the context variables of the entry and the context.
C27_MissingStyleFallback ==
    (Selected /\ ~SelectedStyle.raised) =>
        LET a == composer_args[1]
            catalog == a.image_enhancer_prompts
            style == SelectedStyle.value
            context_vars ==
                prepare_prompt_context_variables(a.entry.content_theme,
                                                 a.entry.topic, a.business_context)
        IN  /\ HasTemplates(catalog, style) =>
                 EnhancedPrompt =
                     fill_prompt_template(catalog[style].prompts[1], context_vars)
            /\ (/\ HasNoPromptsList(catalog, style)
                /\ HasTemplates(catalog, "minimal_clean_bold_typography")) =>
                 EnhancedPrompt =
                     fill_prompt_template(
                         catalog["minimal_clean_bold_typography"].prompts[1],
                         context_vars)

C27_Witness ==
    /\ Selected
    /\ ~SelectedStyle.raised
    /\ SelectedStyle.value # "minimal_clean_bold_typography"
    /\ SelectedStyle.value \in DOMAIN composer_args[1].image_enhancer_prompts
    /\ HasNoPromptsList(composer_args[1].image_enhancer_prompts, SelectedStyle.value)
    /\ Includes(EnhancedPrompt, "Minimal clean design with bold typography for a retail brand")
    /\ Includes(EnhancedPrompt, "Primary Color: #112233")
    /\ ~Includes(EnhancedPrompt, "{")

----------------------------------------------------------------------------
(* Properties of the caption *)

Captioned == caption_args # None /\ Len(caption_results) = 1

Caption == caption_results[1]

\* The lines of the answer, each without its surrounding blanks, that start
\* with the marker.
RECURSIVE MarkerLines(_)
MarkerLines(lines) ==
    IF lines = <<>> THEN <<>>
    ELSE (IF StartsWith(Strip(Head(lines)), "CAPTION:")
          THEN <<Strip(Head(lines))>> ELSE <<>>) \o MarkerLines(Tail(lines))

\* The text after the marker of a line that starts with it.
AfterMarker(line) == Strip(SubSeq(line, Len("CAPTION:") + 1, Len(line)))

\* The caption is one of the three synthesized texts.
IsGenericCaption(caption) ==
    \/ StartsWith(caption, "Check out this amazing content about ")
    \/ StartsWith(caption, "Exciting content about ")
    \/ StartsWith(caption, "Great content about ")

\* C28: the caption is never empty; with a client whose request returns, it
\* is the text after the marker on the first line that starts with
\* CAPTION: when there is such a line and that text is not empty; in every
\* other case (no such line, empty text, the request raises, no client) it
\* is a synthesized generic caption.
C28_CaptionNeverFails ==
    Captioned =>
        LET a == caption_args[1]
            marked == MarkerLines(a.response.lines)
            parsed == /\ a.openai_client
                      /\ ~a.response.raised
                      /\ marked # <<>>
                      /\ AfterMarker(marked[1]) # ""
        IN  /\ Caption # ""
            /\ parsed => Caption = AfterMarker(marked[1])
            /\ ~parsed => IsGenericCaption(Caption)

----------------------------------------------------------------------------
(* Properties of the persisted row *)

\* The image stage of the execution returned an asset: an upload gave a URL.
AssetReturned(x) ==
    \E i \in CallsOf(x.calls, {"storage_upload"}) : x.calls[i].res = "ok"

\* C29: whatever the outcome of the insert, the processing of the entry goes
\* on: one insert is issued, the update of the entry follows it, and
\* an exception leaves the processing only when that update raises.  For a
\* record with no image and no script the row inserted has the title, the
\* text and the hashtags of the record and status "generated", and none of
\* images, media_url, short_video_script and long_video_script.
C29_PersistenceNeverFails ==
    (Synthesized /\ Persisted) =>
        LET x == SynthExec
            rec == SynthRecord
            n == Len(x.calls)
        IN  /\ Cardinality(CallsOf(x.calls, {"created_content_insert"})) = 1
            /\ \A i \in CallsOf(x.calls, {"created_content_insert"}) :
                   /\ i + 1 = n
                   /\ x.calls[n].op = "calendar_entries_update"
            /\ x.raised <=> x.calls[n].res = "raise"
            /\ x.marked <=> x.calls[n].res = "ok"
            /\ x.row # None <=> x.calls[n - 1].res = "ok"
            /\ (/\ x.row # None
                /\ ~AssetReturned(x)
                /\ DOMAIN rec \cap {"reel_script", "video_script"} = {}) =>
                   LET row == x.row[1]
                   IN  /\ {"title", "content", "hashtags", "status"} \subseteq DOMAIN row
                       /\ {"title", "content", "hashtags"} \subseteq DOMAIN rec
                       /\ row.title = rec.title
                       /\ row.content = rec.content
                       /\ row.hashtags = rec.hashtags
                       /\ row.status = "generated"
                       /\ DOMAIN row \cap {"images", "media_url", "short_video_script",
                                           "long_video_script"} = {}

\* A record without image and script is saved although the insert of
\* another execution of the same entry raises.
C29_Witness ==
    /\ Synthesized
    /\ Persisted
    /\ SynthExec.row # None
    /\ ~AssetReturned(SynthExec)
    /\ DOMAIN SynthRecord \cap {"reel_script", "video_script"} = {}
    /\ SynthExec.row[1].status = "generated"
    /\ SynthExec.row[1].content = SynthRecord.content
    /\ "images" \notin DOMAIN SynthExec.row[1]

C29_WitnessInsertRaised ==
    /\ Synthesized
    /\ Persisted
    /\ \E i \in CallsOf(SynthExec.calls, {"created_content_insert"}) :
           SynthExec.calls[i].res = "raise"
    /\ SynthExec.marked
    /\ ~SynthExec.raised

\* The four sections of a script under their headers, in order.
Sections(h1, t1, h2, t2, h3, t3, h4, t4) ==
    h1 \o ": " \o t1 \o "\n\n" \o h2 \o ": " \o t2 \o "\n\n"
    \o h3 \o ": " \o t3 \o "\n\n" \o h4 \o ": " \o t4

\* C30: the text of the inserted row is a caption of generate_caption_for_image
\* when the image stage returned an asset, and the text of the synthesized
\* record otherwise; the row has images and media_url exactly when the image
\* stage returned an asset; it has short_video_script exactly when the
\* record has a reel script and long_video_script exactly when the record
\* has a video script, and the script text is the four sections of the
\* script in their fixed order, each under its header.
C30_BodySelection ==
    (Synthesized /\ Persisted /\ SynthExec.row # None) =>
        LET x == SynthExec
            rec == SynthRecord
            row == x.row[1]
            captions ==
                {c.result : c \in generate_caption_for_image(
                                      SynthEntry.topic, rec, synth_args[1].openai_client)}
        IN  /\ "content" \in DOMAIN row
            /\ AssetReturned(x) => row.content \in captions
            /\ ~AssetReturned(x) =>
                   "content" \in DOMAIN rec /\ row.content = rec.content
            /\ AssetReturned(x) <=> "images" \in DOMAIN row
            /\ AssetReturned(x) <=> "media_url" \in DOMAIN row
            /\ "images" \in DOMAIN row =>
                   row.images = <<"public_url">> /\ row.media_url = "public_url"
            /\ "short_video_script" \in DOMAIN row <=> "reel_script" \in DOMAIN rec
            /\ "long_video_script" \in DOMAIN row <=> "video_script" \in DOMAIN rec
            /\ "short_video_script" \in DOMAIN row =>
                   /\ {"hook", "value", "story", "cta"} \subseteq DOMAIN rec.reel_script
                   /\ row.short_video_script =
                          Sections("HOOK", rec.reel_script.hook,
                                   "VALUE", rec.reel_script.value,
                                   "STORY", rec.reel_script.story,
                                   "CTA", rec.reel_script.cta)
            /\ "long_video_script" \in DOMAIN row =>
                   /\ {"introduction", "main_content", "expert_insights", "conclusion"}
                          \subseteq DOMAIN rec.video_script
                   /\ row.long_video_script =
                          Sections("INTRODUCTION", rec.video_script.introduction,
                                   "MAIN CONTENT", rec.video_script.main_content,
                                   "EXPERT INSIGHTS", rec.video_script.expert_insights,
                                   "CONCLUSION", rec.video_script.conclusion)

\* A row with the caption and the image of an asset.
C30_Witness ==
    /\ Synthesized
    /\ Persisted
    /\ SynthExec.row # None
    /\ AssetReturned(SynthExec)
    /\ SynthExec.row[1].content = "Big spring sale!"
    /\ SynthExec.row[1].content # SynthRecord.content
    /\ SynthExec.row[1].media_url = "public_url"

C30_WitnessScript ==
    /\ Synthesized
    /\ Persisted
    /\ SynthExec.row # None
    /\ "short_video_script" \in DOMAIN SynthExec.row[1]
    /\ SynthExec.row[1].content = SynthRecord.content

----------------------------------------------------------------------------
(* Properties of a run as a whole *)

\* The columns of calendar_entries the pipeline writes.
WrittenColumns == {"content", "status", "updated_at"}

\* The calls that write nothing: the selects on the three tables the
\* pipeline reads, and the calls of the generators.
NonWritingOps ==
    {"calendars_select", "profiles_select", "generate_content",
     "image_generate", "image_download", "caption_request"}

\* C31: a step changes a calendar_entries row only if the entry is in the
\* batch of the running process, and then only its columns content, status
\* and updated_at; no row of calendar_entries disappears; created_content
\* only gains rows, and only for the entry being processed; every call an
\* entry's processing makes is a read, a generator call, an upload, the
\* insert into created_content or the update of calendar_entries, so
\* nothing is written to or deleted from profiles or
\* social_media_calendars.
C31_WriteFrame ==
    [][/\ DOMAIN calendar_entries' = DOMAIN calendar_entries
       /\ \A e \in Entries :
            /\ DOMAIN calendar_entries'[e] = DOMAIN calendar_entries[e]
            /\ calendar_entries'[e] # calendar_entries[e] =>
                 /\ \E p \in Procs : pc[p] = "running" /\ e \in BatchIds(p)
                                     /\ last'[p] # None /\ last'[p][1].entry = e
                 /\ \A k \in DOMAIN calendar_entries[e] \ WrittenColumns :
                        calendar_entries'[e][k] = calendar_entries[e][k]
            /\ created_content'[e] >= created_content[e]
            /\ created_content'[e] > created_content[e] =>
                 \E p \in Procs : /\ e \in BatchIds(p)
                                  /\ last'[p] # None /\ last'[p][1].entry = e
       /\ \A p \in Procs :
            last'[p] # None =>
                \A i \in 1..Len(last'[p][1].exec.calls) :
                    LET call == last'[p][1].exec.calls[i]
                    IN  call.op \in NonWritingOps \cup WriteOps]_vars

\* An entry has been through all three writes; the columns the pipeline
\* does not own are as the planner wrote them.
C31_Witness ==
    \E p \in Procs :
        /\ last[p] # None
        /\ HasCall(LastCalls(p), "storage_upload", "ok")
        /\ HasCall(LastCalls(p), "created_content_insert", "ok")
        /\ Marked(LastEntry(p))
        /\ created_content[LastEntry(p)] = 1
        /\ calendar_entries[LastEntry(p)].updated_at = "now"
        /\ calendar_entries[LastEntry(p)].topic = "Spring Sale"
        /\ \E e \in Entries : e # LastEntry(p) /\ Untouched(e)

\* The ids of a batch are those of different rows.
DistinctIds(rows) ==
    \A i, j \in 1..Len(rows) : rows[i].id = rows[j].id => i = j

\* C32: a run that has got a batch ends, whatever the outcomes of the calls
\* its entries make; it ends only after the last entry of the batch; the
\* entries are begun one after the other in batch order, each once, the
\* next one only when the one before has returned or raised; an exception
\* of an entry is counted by the loop and nothing of it remains when the
\* run is over; a run whose query raised is over at once.
C32_RunEndsCleanly ==
    /\ [](\A p \in Procs :
            /\ idx[p] <= Len(batch[p])
            /\ DistinctIds(batch[p])
            /\ errors[p] <= idx[p] + (IF last[p] = None THEN 0 ELSE 1)
            /\ query[p] = "raise" => pc[p] = "done"
            /\ pc[p] = "done" =>
                 /\ idx[p] = Len(batch[p])
                 /\ running[p] = {}
                 /\ last[p] = None)
    /\ [][\A p \in Procs :
            /\ running'[p] \ running[p] # {} /\ Cardinality(running'[p]) > Cardinality(running[p]) =>
                 /\ running[p] = {}
                 /\ last[p] = None
                 /\ running'[p] = {[index |-> idx[p] + 1, done |-> <<>>]}
            /\ (last[p] = None /\ last'[p] # None) =>
                 /\ last'[p][1].entry = batch[p][idx[p] + 1].id
                 /\ running'[p] = {}
            /\ (pc[p] = "running" /\ idx'[p] # idx[p]) =>
                 /\ idx'[p] = idx[p] + 1
                 /\ last[p] # None
                 /\ last[p][1].entry = batch[p][idx[p] + 1].id]_vars
    /\ \A p \in Procs : (pc[p] = "running") ~> (pc[p] = "done")

\* A run is over after both entries of its batch raised.
C32_Witness ==
    \E p \in Procs :
        /\ pc[p] = "done"
        /\ query[p] = "ok"
        /\ Len(batch[p]) = NumEntries
        /\ idx[p] = NumEntries
        /\ errors[p] = NumEntries

----------------------------------------------------------------------------
(* Properties of the storage path *)

PathBuilt == path_args # None /\ path_results # <<>> /\ path_results[1] # None

Path == path_results[1][1]

RECURSIVE MapChars(_, _, _)
\* s with the characters of `dropped` left out and those of `underscored`
\* turned into underscores.
MapChars(s, dropped, underscored) ==
    IF s = "" THEN ""
    ELSE LET c == SubSeq(s, 1, 1)
         IN  (IF c \in dropped THEN ""
              ELSE IF c \in underscored THEN "_"
              ELSE c) \o MapChars(Tail(s), dropped, underscored)

\* The characters of s.
Chars(s) == {SubSeq(s, i, i) : i \in 1..Len(s)}

\* The path is made of the parts, in the form of the convention.
PathOf(sanitized, entry_id, uuid) ==
    "cron_generated/" \o sanitized \o "_" \o Take(entry_id, 8) \o "_"
    \o Take(uuid, 8) \o ".png"

\* C33 as stated: the sanitized topic of the path is the topic of the entry
\* with every illegal character stripped and every space replaced by an
\* underscore, cut to 50 characters.
C33_StoragePath ==
    PathBuilt =>
        LET a == path_args[1]
        IN  Path = PathOf(Take(MapChars(a.topic, InvalidFilenameChars, {" "}), 50),
                          a.entry_id, a.uuid)

\* C33, amended: the sanitized topic of the path is the topic of the entry
\* with every space and every slash replaced by an underscore and every
\* other illegal character stripped, cut to 50 characters; it holds no
\* space and no illegal character.
C33_StoragePathAmended ==
    PathBuilt =>
        LET a == path_args[1]
            sanitized ==
                Take(MapChars(a.topic, InvalidFilenameChars \ {"/"}, {" ", "/"}), 50)
        IN  /\ Path = PathOf(sanitized, a.entry_id, a.uuid)
            /\ Len(sanitized) <= 50
            /\ Chars(sanitized) \cap (InvalidFilenameChars \cup {" "}) = {}
            /\ Len(Take(a.uuid, 8)) = 8

\* A topic with slashes, spaces and other illegal characters, longer than
\* 50 characters, has been given its path.
C33_Witness ==
    /\ PathBuilt
    /\ path_args[1].topic =
           "Why: ten simple ideas <to grow> your retail/store this spring?"
    /\ Path = "cron_generated/Why_ten_simple_ideas_to_grow_your_retail_store_thi_0a1b2c3d_1a2b3c4d.png"

----------------------------------------------------------------------------
(* Properties of the asset of the image stage *)

\* The contexts process_single_entry goes on with.
LoadedContexts ==
    {load_user_profile(r) : r \in ProfileResponses} \ {<<>>}

\* Everything generate_and_save_images can return for a batch row and a
\* record synthesized for it.
ImageStageResults ==
    UNION {UNION {{x.result : x \in generate_and_save_images(
                                        row, generate_content(row, ctx)[1], client)}
                  : ctx \in {c \in LoadedContexts : generate_content(row, c) # None}}
           : row \in BatchRows, client \in BOOLEAN}

\* The captions generate_caption_for_image can give for a batch row.
CaptionsOf ==
    [row \in BatchRows |->
        UNION {{c.result : c \in generate_caption_for_image(
                                     row.topic, generate_content(row, ctx)[1], TRUE)}
               : ctx \in {c \in LoadedContexts : generate_content(row, c) # None}}]

\* C34: generate_and_save_images returns no asset or a pair of a storage
\* URL and a non-empty caption.  In the processing of an entry a caption
\* request comes only after an upload that succeeded; no call of the image
\* stage is the last call of the processing, so no failure of the stage
\* leaves process_single_entry as an exception; and a row that has an image
\* URL belongs to an execution with an uploaded image and has a caption of
\* that execution as its body.
C34_AssetPairShape ==
    /\ \A r \in ImageStageResults :
           r # None =>
               /\ {"image_url", "caption"} \subseteq DOMAIN r[1]
               /\ r[1].image_url \notin {NULL, ""}
               /\ r[1].caption \notin {NULL, ""}
    /\ \A p \in Procs :
           last[p] # None =>
               LET x == LastExec(p)
                   n == Len(x.calls)
               IN  /\ \A i \in CallsOf(x.calls, {"caption_request"}) :
                          \E j \in 1..(i - 1) :
                              /\ x.calls[j].op = "storage_upload"
                              /\ x.calls[j].res = "ok"
                   /\ \A i \in CallsOf(x.calls, ImageStageOps) : i < n
                   /\ x.raised =>
                          x.calls[n].op \in {"calendars_select", "calendar_entries_update"}
                   /\ (x.row # None /\ "images" \in DOMAIN x.row[1]) =>
                          /\ HasAsset(x.calls)
                          /\ x.row[1].images = <<x.row[1].media_url>>
                          /\ x.row[1].content # ""
                          /\ x.row[1].content \in CaptionsOf[batch[p][idx[p] + 1]]
                          /\ x.row[1].content \notin SynthesizedTexts(p)

\* The caption request of an entry raised after its image was uploaded; the
\* row has the image and the generic caption.
C34_Witness ==
    \E p \in Procs :
        /\ last[p] # None
        /\ HasCall(LastCalls(p), "storage_upload", "ok")
        /\ HasCall(LastCalls(p), "caption_request", "raise")
        /\ LastExec(p).row # None
        /\ LastExec(p).row[1].media_url = "public_url"
        /\ LastExec(p).row[1].content = "Great content about Spring Sale! #Business #Success"

----------------------------------------------------------------------------
(* Properties of runs that follow one another *)

\* C35: in runs that do not overlap, created_content never holds more than
\* one row for a calendar entry.
C35_AtMostOneRowPerEntry ==
    \A e \in Entries : created_content[e] <= 1

----------------------------------------------------------------------------
(* Properties of the second load of the profile *)

\* C36: the context the image stage has loaded, with which the style is
\* classified and the image prompt composed, is the context the content
\* record was synthesized from, whatever the second select on profiles
\* gives; and whatever it gives, a prompt is composed.
C36_SameContextInImageStage ==
    Composed =>
        LET a == composer_args[1]
        IN  /\ a.business_context = a.synthesis_context
            /\ a.content_data.business_name =
                   Get(a.business_context, "business_name", "Our Business")
            /\ ImagePrompt # ""

----------------------------------------------------------------------------
(* Properties of a run without an image-generation client *)

\* C37: in a run without a client no entry makes an image-generation call,
\* a download, an upload or a caption request.  An image-bearing entry of
\* such a run whose synthesis succeeded still has its insert and its update
\* issued; the row inserted has the synthesized text as body and no image,
\* and the entry is marked content_generated; each of the two writes takes
\* effect unless the call itself fails.
C37_NoClientNoImage ==
    \A p \in Procs :
        (last[p] # None /\ ~openai_client[p]) =>
            LET x == LastExec(p)
                e == LastEntry(p)
                n == Len(x.calls)
            IN  /\ CallsOf(x.calls, ImageStageOps) = {}
                /\ ~HasAsset(x.calls)
                /\ (~ScriptOnly(e) /\ SynthesisOk(x.calls)) =>
                       /\ n >= 2
                       /\ x.calls[n - 1].op = "created_content_insert"
                       /\ x.calls[n].op = "calendar_entries_update"
                       /\ x.row # None <=> x.calls[n - 1].res = "ok"
                       /\ x.row # None =>
                              /\ x.row[1].content \in SynthesizedTexts(p)
                              /\ x.row[1].status = "generated"
                              /\ DOMAIN x.row[1] \cap {"images", "media_url"} = {}
                              /\ created_content[e] > 0
                       /\ x.calls[n].res = "ok" <=> x.marked
                       /\ x.marked =>
                              /\ calendar_entries[e].content = TRUE
                              /\ calendar_entries[e].status = "content_generated"
                              /\ e \in processed[p]

\* An image-bearing entry of a run without a client has been saved without
\* an image and marked.
C37_Witness ==
    \E p \in Procs :
        /\ last[p] # None
        /\ ~openai_client[p]
        /\ ~ScriptOnly(LastEntry(p))
        /\ calendar_entries[LastEntry(p)].topic = "Spring Sale"
        /\ LastExec(p).row # None
        /\ "images" \notin DOMAIN LastExec(p).row[1]
        /\ Marked(LastEntry(p))

----------------------------------------------------------------------------
(* Properties of carousel entries *)

====
